---------------------------- MODULE Spec2Model ----------------------------
(***************************************************************************)
(* A model of kkcrypto's ingestion-and-aggregation pipeline:               *)
(*   exchange client (src/exchanges/*.rs) -> trade channel ->              *)
(*   TradeCandleBuilder (src/utils/trade_candle_builder.rs) <- timers      *)
(*   -> candle channel -> database writer task (src/bin/bybit.rs).         *)
(*                                                                         *)
(* f64 values are modelled as exact rationals <<n, d>> in lowest terms     *)
(* (d >= 1): every operation below is the real-number operation the f64    *)
(* code rounds, so equalities of prices are equalities "up to f64          *)
(* rounding".  Option<T> is a sequence of length 0 (None) or 1 (Some).     *)
(* Timestamps are milliseconds since the epoch, at or after the epoch.     *)
(***************************************************************************)
EXTENDS Integers, Sequences, FiniteSets, TLC

VARIABLES
    cfg,            \* command line and environment of the run
    client,         \* the exchange client: ws_stream, trade_counter, loop position, and
                    \* the control messages it has written to the stream (sent)
    frames,         \* the number of inbound frames read so far (the last frame's ordinal)
    flagged,        \* ordinals of the frames written to the diagnostic log
    delivered,      \* the trade events the exchange has delivered (each is delivered once)
    trade_queue,    \* mpsc::channel::<Trade>
    trigger_queue,  \* mpsc::channel::<u32> of timer triggers
    candle_queue,   \* mpsc::channel::<TradeCandle>
    buffers,        \* TradeCandleBuilder.buffers
    engine,         \* TradeCandleBuilder::start's position: select or inside a flush
    sink,           \* the database writer task holding candle_rx
    buf,            \* SpecBuffer: one TradeCandleBuffer
    hist,           \* SpecBuffer: the trades applied to buf, in order
    msg,            \* SpecMessage: the frame handed to process_message and the Trades sent
    caller,         \* who drives the client: main, or a caller of the ExchangeClient API
    timers          \* the timeframes (by position in the list) whose timer task is running

vars == <<cfg, client, frames, flagged, delivered, trade_queue, trigger_queue, candle_queue,
          buffers, engine, sink, buf, hist, msg, caller, timers>>

pipeVars == <<cfg, client, frames, flagged, delivered, trade_queue, trigger_queue, candle_queue,
              buffers, engine, sink, caller, timers>>

-----------------------------------------------------------------------------
(* Bounds of the model.                                                    *)

\* frames the exchange delivers in one run
MaxFrames == 3
\* capacity of the trade channel (mpsc::channel::<Trade>(1000)), scaled down
TradeCapacity == 1
\* capacity of the candle channel (mpsc::channel::<TradeCandle>(1000)), scaled down
CandleCapacity == 1
\* capacity of the trigger channel (mpsc::channel::<u32>(100)), scaled down
TriggerCapacity == 1
\* updates applied to the single buffer of SpecBuffer
MaxUpdates == 3

-----------------------------------------------------------------------------
(* f64 as exact rationals.                                                 *)

RECURSIVE Gcd(_, _)
Gcd(a, b) == IF b = 0 THEN a ELSE Gcd(b, a % b)

Abs(x) == IF x < 0 THEN -x ELSE x

\* the rational n/d in lowest terms with a positive denominator
Rat(n, d) ==
    LET s == IF d < 0 THEN -1 ELSE 1
        g == Gcd(Abs(n), Abs(d))
    IN  <<(s * n) \div g, (s * d) \div g>>

F(n) == <<n, 1>>
Zero == <<0, 1>>

FAdd(x, y) == Rat(x[1] * y[2] + y[1] * x[2], x[2] * y[2])
FMul(x, y) == Rat(x[1] * y[1], x[2] * y[2])
\* only used with y > 0
FDiv(x, y) == Rat(x[1] * y[2], x[2] * y[1])
FGt(x, y) == x[1] * y[2] > y[1] * x[2]

None == <<>>
Some(x) == <<x>>
UnwrapOr(o, d) == IF o = None THEN d ELSE o[1]

-----------------------------------------------------------------------------
(* src/models/trade.rs, src/models/market_type.rs                          *)

Side == {"Buy", "Sell"}
MarketType == {"spot", "linear", "inverse"}

\* Trade::new; the random id (Uuid::new_v4) is not modelled
NewTrade(exchange, market_type, symbol, trade_id, price, quantity, side, timestamp) ==
    [exchange |-> exchange, market_type |-> market_type, symbol |-> symbol,
     trade_id |-> trade_id, price |-> price, quantity |-> quantity,
     side |-> side, timestamp |-> timestamp]

-----------------------------------------------------------------------------
(* TradeCandleBuffer, src/utils/trade_candle_builder.rs                    *)

\* TradeCandleBuffer::new
NewBuffer(timestamp) ==
    [ask_price |-> None, ask_volume |-> Zero, ask_count |-> 0,
     bid_price |-> None, bid_volume |-> Zero, bid_count |-> 0,
     timestamp |-> timestamp]

\* a faulty VWAP that ignores the volume already accumulated (C1 rejects it)
NewVwapUnweighted(price, volume, trade) ==
    LET new_total_volume == FAdd(volume, trade.quantity)
    IN  IF FGt(new_total_volume, Zero)
        THEN Some(FDiv(FAdd(UnwrapOr(price, Zero), FMul(trade.price, trade.quantity)),
                       new_total_volume))
        ELSE price

\* a faulty VWAP that keeps the last trade's price (C6 rejects it)
NewVwapLastPrice(price, volume, trade) ==
    IF FGt(FAdd(volume, trade.quantity), Zero) THEN Some(trade.price) ELSE price

\* the running VWAP of one side after one more trade
NewVwap(price, volume, trade) ==
    LET new_total_volume == FAdd(volume, trade.quantity)
    IN  IF FGt(new_total_volume, Zero)
        THEN Some(FDiv(FAdd(FMul(UnwrapOr(price, Zero), volume),
                            FMul(trade.price, trade.quantity)),
                       new_total_volume))
        ELSE price

\* a faulty update that books a buy on the bid side and a sell on the ask side
\* (C9 rejects it)
UpdateSwapped(b, trade) ==
    IF trade.side = "Buy"
    THEN [b EXCEPT !.bid_price = NewVwap(b.bid_price, b.bid_volume, trade),
                   !.bid_volume = FAdd(b.bid_volume, trade.quantity),
                   !.bid_count = b.bid_count + 1]
    ELSE [b EXCEPT !.ask_price = NewVwap(b.ask_price, b.ask_volume, trade),
                   !.ask_volume = FAdd(b.ask_volume, trade.quantity),
                   !.ask_count = b.ask_count + 1]

\* TradeCandleBuffer::update
Update(b, trade) ==
    IF trade.side = "Sell"
    THEN [b EXCEPT !.bid_price = NewVwap(b.bid_price, b.bid_volume, trade),
                   !.bid_volume = FAdd(b.bid_volume, trade.quantity),
                   !.bid_count = b.bid_count + 1]
    ELSE [b EXCEPT !.ask_price = NewVwap(b.ask_price, b.ask_volume, trade),
                   !.ask_volume = FAdd(b.ask_volume, trade.quantity),
                   !.ask_count = b.ask_count + 1]


\* DateTime::timestamp: whole seconds of a DateTime (floor of ms / 1000)
TimestampSecs(dt) == dt \div 1000

\* DateTime::from_timestamp(secs, 0)
FromTimestamp(secs) == secs * 1000

\* Rust's i64 `/`: the quotient truncated toward zero
DivTrunc(a, b) ==
    IF (a >= 0) = (b > 0) THEN Abs(a) \div Abs(b) ELSE -(Abs(a) \div Abs(b))

\* `timeframe as i32` of a u32
AsI32(x) == IF x <= 2147483647 THEN x ELSE x - 2147483647 - 2147483647 - 2

\* a faulty bucket start that is not aligned to the period (C7 rejects it)
CandleStartUnaligned(timestamp, period_seconds) == TimestampSecs(timestamp)

\* the bucket start: (seconds_since_epoch / period_seconds) * period_seconds
CandleStart(timestamp, period_seconds) ==
    DivTrunc(TimestampSecs(timestamp), period_seconds) * period_seconds

\* a faulty snapshot that keeps the key and the bucket but not the side states,
\* as TradeCandle::new leaves them (C5 rejects it)
ToTradeCandleBlank(b, exchange, market_type, symbol, period_seconds) ==
    [exchange |-> exchange, market_type |-> market_type, symbol |-> symbol,
     timestamp |-> FromTimestamp(CandleStart(b.timestamp, period_seconds)),
     period_seconds |-> period_seconds,
     ask_price |-> None, ask_volume |-> Zero, ask_count |-> 0,
     bid_price |-> None, bid_volume |-> Zero, bid_count |-> 0]

\* TradeCandleBuffer::to_trade_candle; the random id is not modelled
ToTradeCandle(b, exchange, market_type, symbol, period_seconds) ==
    [exchange |-> exchange, market_type |-> market_type, symbol |-> symbol,
     timestamp |-> FromTimestamp(CandleStart(b.timestamp, period_seconds)),
     period_seconds |-> period_seconds,
     ask_price |-> b.ask_price, ask_volume |-> b.ask_volume, ask_count |-> b.ask_count,
     bid_price |-> b.bid_price, bid_volume |-> b.bid_volume, bid_count |-> b.bid_count]

-----------------------------------------------------------------------------
(* TradeCandleBuilder, src/utils/trade_candle_builder.rs                   *)

\* the key (exchange, market_type, symbol, timeframe) of a trade's buffer
KeyOf(trade, timeframe) ==
    <<trade.exchange, trade.market_type, trade.symbol, timeframe>>

\* a faulty upsert that moves the buffer's timestamp to each trade it applies
\* (C27 rejects it)
UpsertRestamped(bufs, key, trade) ==
    [k \in DOMAIN bufs \cup {key} |->
        IF k # key THEN bufs[k]
        ELSE IF key \in DOMAIN bufs
        THEN [Update(bufs[key], trade) EXCEPT !.timestamp = trade.timestamp]
        ELSE Update(NewBuffer(trade.timestamp), trade)]

\* a faulty upsert that inserts the new buffer without applying the trade that
\* created it (C34 rejects it)
UpsertInsertOnly(bufs, key, trade) ==
    IF key \in DOMAIN bufs
    THEN [bufs EXCEPT ![key] = Update(@, trade)]
    ELSE [k \in DOMAIN bufs \cup {key} |->
            IF k = key THEN NewBuffer(trade.timestamp) ELSE bufs[k]]

\* entry(key).and_modify(update).or_insert_with(new + update)
Upsert(bufs, key, trade) ==
    IF key \in DOMAIN bufs
    THEN [bufs EXCEPT ![key] = Update(@, trade)]
    ELSE [k \in DOMAIN bufs \cup {key} |->
            IF k = key THEN Update(NewBuffer(trade.timestamp), trade) ELSE bufs[k]]

\* a faulty process_trade that stops after the first timeframe (C3 rejects it)
ProcessTradeFirstOnly(bufs, tfs, trade) ==
    IF tfs = <<>> THEN bufs ELSE Upsert(bufs, KeyOf(trade, Head(tfs)), trade)

\* TradeCandleBuilder::process_trade: the loop over self.timeframes
RECURSIVE ProcessTrade(_, _, _)
ProcessTrade(bufs, tfs, trade) ==
    IF tfs = <<>> THEN bufs
    ELSE ProcessTrade(Upsert(bufs, KeyOf(trade, Head(tfs)), trade), Tail(tfs), trade)

\* a faulty selection that takes the buffers of every timeframe (C26 rejects it)
FlushKeysAll(bufs, timeframe) == DOMAIN bufs

\* flush_candles_for_timeframe: the buffers the loop acts on, those with tf == timeframe
FlushKeys(bufs, timeframe) == {k \in DOMAIN bufs : k[4] = timeframe}

\* flush_candles_for_timeframe: "if buffer.ask_count > 0 || buffer.bid_count > 0"
HasData(b) == b.ask_count > 0 \/ b.bid_count > 0

\* a faulty removal that keeps the buffers with trades on one side only
\* (C4 rejects it)
RemoveKeysEmitted(bufs, keys) ==
    [k \in DOMAIN bufs \ {j \in keys : bufs[j].ask_count > 0 /\ bufs[j].bid_count > 0} |->
        bufs[k]]

\* a faulty removal that leaves every buffer in the map (C21 rejects it)
RemoveKeysNone(bufs, keys) == bufs

\* flush_candles_for_timeframe: the final loop over buffers_to_remove
RemoveKeys(bufs, keys) == [k \in DOMAIN bufs \ keys |-> bufs[k]]

-----------------------------------------------------------------------------
(* Exchange clients, src/exchanges/{binance,bybit,hyperliquid}.rs          *)
(*                                                                         *)
(* An inbound frame is a record                                            *)
(*   type    "text" or "binary" (Message::Text or another Message)         *)
(*   json_ok the text deserializes into the exchange's message struct      *)
(*           (BinanceMessage, BybitResponse, HyperliquidMessage)           *)
(*   topic   Binance: e, Bybit: topic (None when absent), Hyperliquid:     *)
(*           channel; an Option of the pair <<text before the first '.',   *)
(*           rest>>                                                        *)
(*   data_ok Bybit: data is present and deserializes into                  *)
(*           Vec<BybitTradeData>                                           *)
(*   data    the native trade records: s, p, q, side, T, id                *)

Exchange == {"binance", "bybit", "hyperliquid"}

\* str::parse::<f64>() on the numeric texts the model feeds: Ok as Some, Err as None
ParseF64(text) ==
    CASE text = "0"   -> Some(F(0))
      [] text = "1"   -> Some(F(1))
      [] text = "2"   -> Some(F(2))
      [] text = "0.5" -> Some(Rat(1, 2))
      [] text = "98"  -> Some(F(98))
      [] text = "100" -> Some(F(100))
      [] text = "102" -> Some(F(102))
      [] OTHER        -> None

\* binance.rs: "let side = if data.is_buyer_maker { Side::Buy } else { Side::Sell }"
BinanceSide(is_buyer_maker) == IF is_buyer_maker THEN "Buy" ELSE "Sell"

\* bybit.rs: match trade_data.side.as_str()
BybitSide(side) ==
    CASE side = "Buy"  -> "Buy"
      [] side = "Sell" -> "Sell"
      [] OTHER         -> "Buy"

\* a faulty Hyperliquid mapping with "A" and "B" exchanged (C8 rejects it)
HyperliquidSideSwapped(side) ==
    CASE side = "A" -> "Buy"
      [] side = "B" -> "Sell"
      [] OTHER      -> "Buy"

\* hyperliquid.rs: match trade_data.side.as_str()
HyperliquidSide(side) ==
    CASE side = "A" -> "Sell"
      [] side = "B" -> "Buy"
      [] OTHER      -> "Buy"

\* the side of the Trade built from one native record
NativeSide(exchange, side) ==
    CASE exchange = "binance" -> BinanceSide(side)
      [] exchange = "bybit"   -> BybitSide(side)
      [] OTHER                -> HyperliquidSide(side)

\* the Trade process_message builds from one native record
MakeTrade(exchange, market_type, d) ==
    NewTrade(exchange, market_type, d.s, d.id,
             UnwrapOr(ParseF64(d.p), Zero), UnwrapOr(ParseF64(d.q), Zero),
             NativeSide(exchange, d.side), d.T)

\* the name a trade event carries in each exchange's topic field
TradeTopic(exchange) ==
    CASE exchange = "binance" -> "aggTrade"
      [] exchange = "bybit"   -> "publicTrade"
      [] OTHER                -> "trades"

\* a faulty test that takes every well-formed text for a trade event, whatever
\* its event type, topic or channel (C16 rejects it)
IsTradeEventAnyTopic(exchange, frame) ==
    /\ frame.type = "text"
    /\ frame.json_ok
    /\ exchange = "bybit" => frame.data_ok

\* process_message's conditions for a frame to be a trade event
IsTradeEvent(exchange, frame) ==
    /\ frame.type = "text"
    /\ frame.json_ok
    /\ frame.topic # None
    /\ frame.topic[1][1] = TradeTopic(exchange)
    /\ exchange = "bybit" \/ frame.topic[1][2] = ""
    /\ exchange = "bybit" => frame.data_ok

\* a faulty process_message that drops the records whose price or quantity
\* does not parse (C17 rejects it)
ProcessMessageStrict(exchange, market_type, frame) ==
    IF IsTradeEvent(exchange, frame)
    THEN LET parses(d) == ParseF64(d.p) # None /\ ParseF64(d.q) # None
             kept      == SelectSeq(frame.data, parses)
         IN  [i \in 1..Len(kept) |-> MakeTrade(exchange, market_type, kept[i])]
    ELSE <<>>

\* a faulty process_message that sends the trades of a frame last to first
\* (C19 rejects it)
ProcessMessageReversed(exchange, market_type, frame) ==
    IF IsTradeEvent(exchange, frame)
    THEN [i \in 1..Len(frame.data) |->
            MakeTrade(exchange, market_type, frame.data[Len(frame.data) + 1 - i])]
    ELSE <<>>

\* process_message: the Trades sent for one frame, in order
ProcessMessage(exchange, market_type, frame) ==
    IF IsTradeEvent(exchange, frame)
    THEN [i \in 1..Len(frame.data) |-> MakeTrade(exchange, market_type, frame.data[i])]
    ELSE <<>>

\* bybit.rs process_message: one trade_counter.fetch_add(1) per trade of the frame
CountedInMessage(exchange, frame) ==
    IF exchange = "bybit" /\ IsTradeEvent(exchange, frame) THEN Len(frame.data) ELSE 0

\* bybit.rs: "if count % 100 == 1"
BybitRawFreq == 100

\* the modulus of the sampling test: self.raw_freq, or Bybit's literal 100
RawFreq(exchange, raw_freq) == IF exchange = "bybit" THEN BybitRawFreq ELSE raw_freq

\* "if count % raw_freq == 1", count being what fetch_add returned
IsSampled(count, freq) == count % freq = 1

\* "if count >= 1_000_000 { store(0) }"
CounterLimit == 1000000

\* a faulty loop that never resets the counter (C29 rejects it)
CounterAfterFrameNoReset(count) == count + 1

\* trade_counter after the loop's fetch_add and reset for one frame
CounterAfterFrame(count) == IF count >= CounterLimit THEN 0 ELSE count + 1

-----------------------------------------------------------------------------
(* The inputs: command lines and the frames an exchange delivers.          *)

Symbols == {"BTCUSDT", "ETHUSDT"}

\* --raw-freq values (clap: range(2..))
RawFreqs == {2, 3}

\* a command line (exchange binary, market type flag, --timeframes, --raw-freq)
\* and whether src/db/master.csv can be loaded
Config(exchange, market_type, raw_freq, master_csv) ==
    [exchange |-> exchange, market_type |-> market_type,
     symbols |-> <<"BTCUSDT", "ETHUSDT">>,
     timeframes |-> <<1, 5>>, raw_freq |-> raw_freq, master_csv |-> master_csv]

\* the runs explored; the Hyperliquid client is driven by the same main as the
\* other two (the repository ships binaries for Binance and Bybit)
Configs ==
    {Config("binance", "spot", 2, TRUE), Config("bybit", "inverse", 2, TRUE),
     Config("hyperliquid", "linear", 3, TRUE), Config("bybit", "linear", 3, FALSE)}

\* the side field as each exchange encodes it on the wire
WireSide(exchange, side) ==
    CASE exchange = "binance"     -> side = "Buy"
      [] exchange = "bybit"       -> side
      [] OTHER                    -> IF side = "Buy" THEN "B" ELSE "A"

\* one native trade record (BinanceAggTradeData, BybitTradeData, HyperliquidTradeData)
Native(exchange, id, symbol, side, p, q, T) ==
    [s |-> symbol, p |-> p, q |-> q, side |-> WireSide(exchange, side), T |-> T, id |-> id]

\* the trade events of the pipeline's feed; the last carries a malformed quantity
FeedEvents(exchange) ==
    << Native(exchange, "t1", "BTCUSDT", "Buy",  "100", "1",   4200),
       Native(exchange, "t2", "BTCUSDT", "Buy",  "102", "1",   5100),
       Native(exchange, "t3", "BTCUSDT", "Sell", "98",  "2",   4900),
       Native(exchange, "t4", "ETHUSDT", "Sell", "100", "abc", 11000) >>

\* a text frame carrying the given native records as a trade event
TradeFrame(exchange, data) ==
    [type |-> "text", json_ok |-> TRUE,
     topic |-> Some(<<TradeTopic(exchange), IF exchange = "bybit" THEN data[1].s ELSE "">>),
     data_ok |-> TRUE, data |-> data]

\* a frame that is no trade event: a binary frame
BinaryFrame == [type |-> "binary", json_ok |-> FALSE, topic |-> None,
                data_ok |-> FALSE, data |-> <<>>]

\* the events one frame may carry: a single trade or, where the schema
\* carries an array, two trades at once; none for a frame that is no trade event
FrameEvents(exchange) ==
    {<<i>> : i \in 1..Len(FeedEvents(exchange))} \cup {<<>>}
    \cup IF exchange = "binance" THEN {} ELSE {<<1, 3>>}

\* the frame carrying the events `is`
FeedFrame(exchange, is) ==
    IF is = <<>> THEN BinaryFrame
    ELSE TradeFrame(exchange, [j \in 1..Len(is) |-> FeedEvents(exchange)[is[j]]])

Range(seq) == {seq[j] : j \in 1..Len(seq)}

\* the frames that are no trade event, each carrying what would be a trade if
\* it were one: a frame that is not text, a text that does not deserialize, and
\* a text that deserializes with another event type / topic / channel (Bybit
\* also: with no topic, and with a data that is no array of trades)
NonTradeFrames(exchange) ==
    LET data  == <<Native(exchange, "t9", "BTCUSDT", "Buy", "100", "1", 4200)>>
        other == CASE exchange = "binance" -> {Some(<<"trade", "">>)}
                   [] exchange = "bybit"   -> {None, Some(<<"orderbook", "1.BTCUSDT">>),
                                               Some(<<"publicTrades", "BTCUSDT">>)}
                   [] OTHER                -> {Some(<<"l2Book", "">>)}
    IN  {[type |-> "binary", json_ok |-> FALSE, topic |-> None, data_ok |-> FALSE,
          data |-> data],
         [type |-> "text", json_ok |-> FALSE, topic |-> None, data_ok |-> FALSE,
          data |-> data]}
        \cup {[type |-> "text", json_ok |-> TRUE, topic |-> t, data_ok |-> TRUE,
               data |-> data] : t \in other}
        \cup (IF exchange = "bybit"
              THEN {[type |-> "text", json_ok |-> TRUE,
                     topic |-> Some(<<"publicTrade", "BTCUSDT">>), data_ok |-> FALSE,
                     data |-> data]}
              ELSE {})

\* the frames that carry the events `is`
FeedFrames(exchange, is) ==
    IF is = <<>> THEN NonTradeFrames(exchange) ELSE {FeedFrame(exchange, is)}

-----------------------------------------------------------------------------
(* The pipeline: src/bin/bybit.rs main and the tasks it spawns.            *)

EmptyBuffers == [k \in {} |-> NewBuffer(0)]

\* the client is driven by main: connect, then subscribe_trades, then return;
\* trade_rx is held by the engine task
Main == [kind |-> "main", op |-> "none", ret |-> "none", tick |-> 0, trade_rx |-> FALSE]

Init ==
    /\ cfg \in Configs
    /\ client = [pc |-> "new", ws_stream |-> FALSE, market_type |-> None,
                 trade_counter |-> 0, pending |-> <<>>, sent |-> <<>>]
    /\ frames = 0
    /\ flagged = {}
    /\ delivered = {}
    /\ trade_queue = <<>>
    /\ trigger_queue = <<>>
    /\ candle_queue = <<>>
    /\ buffers = EmptyBuffers
    /\ engine = [pc |-> "select", timeframe |-> 0, todo |-> <<>>]
    /\ sink = [alive |-> TRUE]
    /\ timers = DOMAIN cfg.timeframes
    /\ caller = Main
    /\ buf = NewBuffer(0)
    /\ hist = <<>>
    /\ msg = [exchange |-> "binance", market_type |-> "spot", handled |-> FALSE,
              frame |-> BinaryFrame, out |-> <<>>]

\* main has not returned: the runtime and its tasks are alive
Running == client.pc # "exit"

\* main returns: the runtime drops every task with its channels and buffers
MainReturns ==
    /\ client' = [pc |-> "exit", ws_stream |-> FALSE, market_type |-> None,
                  trade_counter |-> 0, pending |-> <<>>, sent |-> <<>>]
    /\ trade_queue' = <<>>
    /\ trigger_queue' = <<>>
    /\ candle_queue' = <<>>
    /\ buffers' = EmptyBuffers
    /\ engine' = [pc |-> "select", timeframe |-> 0, todo |-> <<>>]
    /\ sink' = [alive |-> FALSE]
    /\ timers' = {}
    /\ UNCHANGED <<cfg, frames, flagged, delivered, buf, hist, msg, caller>>

\* the end of subscribe_trades (or of a failed connect): under main, main
\* returns; under another caller the call returns `ret` to it
Returns(ret) ==
    IF caller.kind = "main" THEN MainReturns
    ELSE /\ client' = [client EXCEPT !.pc = "idle", !.pending = <<>>]
         /\ caller' = [caller EXCEPT !.ret = ret, !.tick = 1 - @]
         /\ UNCHANGED <<cfg, frames, flagged, delivered, trade_queue, trigger_queue,
                        candle_queue, buffers, engine, sink, buf, hist, msg, timers>>

\* the client's fields after a successful connect(market_type): Bybit and
\* Hyperliquid hold the stream connect_async returned, Binance only the market type
Connected(c, exchange, market_type) ==
    [c EXCEPT !.ws_stream = IF exchange = "binance" THEN @ ELSE TRUE,
              !.market_type = Some(market_type)]

\* ExchangeClient::connect; a failed handshake makes main return the error
Connect ==
    /\ client.pc = "new"
    /\ \/ /\ client' = [Connected(client, cfg.exchange, cfg.market_type)
                            EXCEPT !.pc = "connected"]
          /\ UNCHANGED <<cfg, frames, flagged, delivered, trade_queue, trigger_queue,
                         candle_queue, buffers, engine, sink, buf, hist, msg, caller, timers>>
       \/ /\ cfg.exchange # "binance"
          /\ MainReturns

\* a faulty subscription that names Hyperliquid's symbols in reverse order
\* (C12 rejects it)
SubscribeMessagesReversed(exchange, symbols) ==
    CASE exchange = "binance" -> <<>>
      [] exchange = "bybit" ->
           <<[op |-> "subscribe",
              args |-> [i \in DOMAIN symbols |-> <<"publicTrade", symbols[i]>>]]>>
      [] OTHER ->
           [i \in DOMAIN symbols |->
               [method |-> "subscribe",
                subscription |-> [type |-> "trades",
                                  coin |-> symbols[Len(symbols) + 1 - i]]]]

\* the control messages subscribe_trades writes to the stream, in order: none
\* for Binance (the streams are named in the URL), one BybitSubscribe whose args
\* are "publicTrade.<symbol>" for every symbol, one HyperliquidSubscribe per symbol
SubscribeMessages(exchange, symbols) ==
    CASE exchange = "binance" -> <<>>
      [] exchange = "bybit" ->
           <<[op |-> "subscribe",
              args |-> [i \in DOMAIN symbols |-> <<"publicTrade", symbols[i]>>]]>>
      [] OTHER ->
           [i \in DOMAIN symbols |->
               [method |-> "subscribe",
                subscription |-> [type |-> "trades", coin |-> symbols[i]]]]

\* subscribe_trades up to the message loop, one step per await: Binance
\* connects here, Bybit and Hyperliquid serialize and send their next control
\* message; after the last one the client is in the message loop. An error
\* (`?`) makes subscribe_trades and then main return it
Subscribe ==
    /\ client.pc = "connected"
    /\ \/ /\ LET msgs == SubscribeMessages(cfg.exchange, cfg.symbols)
                 n    == Len(client.sent)
             IN  client' = IF n < Len(msgs)
                           THEN [client EXCEPT
                                   !.sent = Append(@, msgs[n + 1]),
                                   !.pc = IF n + 1 = Len(msgs) THEN "loop" ELSE "connected"]
                           ELSE [client EXCEPT !.pc = "loop", !.ws_stream = TRUE]
          /\ UNCHANGED <<cfg, frames, flagged, delivered, trade_queue, trigger_queue,
                         candle_queue, buffers, engine, sink, buf, hist, msg, caller, timers>>
       \/ Returns("Err")

\* a faulty channel that sheds what does not fit instead of making the sender
\* wait (C18 rejects it)
RECURSIVE SendAllLossy(_, _, _)
SendAllLossy(queue, items, capacity) ==
    IF items = <<>> \/ Len(queue) >= capacity
    THEN [queue |-> queue, rest |-> <<>>]
    ELSE SendAllLossy(Append(queue, Head(items)), Tail(items), capacity)

\* Sender::send for each of `items` in turn until the channel is full
RECURSIVE SendAll(_, _, _)
SendAll(queue, items, capacity) ==
    IF items = <<>> \/ Len(queue) >= capacity
    THEN [queue |-> queue, rest |-> items]
    ELSE SendAll(Append(queue, Head(items)), Tail(items), capacity)

\* the trade receiver exists: the engine task holds it under main, the caller
\* of the API otherwise
TradeReceiverOpen ==
    IF caller.kind = "main" THEN engine.pc # "ended" ELSE caller.trade_rx

\* a faulty send that keeps waiting on a channel whose receiver is gone
\* (C15 rejects it)
SendTradesWaiting(queue, items, capacity, open) ==
    IF open THEN SendAll(queue, items, capacity) ELSE [queue |-> queue, rest |-> items]

\* trade_sender.send(trade).await for each of `items`: with the receiver gone
\* every send fails at once, the error is logged and the trade dropped
SendTrades(queue, items, capacity, open) ==
    IF open THEN SendAll(queue, items, capacity) ELSE [queue |-> queue, rest |-> <<>>]

\* one turn of the message loop, "Ok(msg)": count, sample, process_message,
\* up to the first send that has to wait
RecvFrame ==
    /\ Running
    /\ client.pc = "loop"
    /\ client.pending = <<>>
    /\ frames < MaxFrames
    /\ \E is \in FrameEvents(cfg.exchange) : \E frame \in FeedFrames(cfg.exchange, is) :
         LET count == client.trade_counter
             sent  == SendTrades(trade_queue,
                                 ProcessMessage(cfg.exchange, client.market_type[1], frame),
                                 TradeCapacity, TradeReceiverOpen)
         IN  /\ Range(is) \cap delivered = {}
             /\ delivered' = delivered \cup Range(is)
             /\ frames' = frames + 1
             /\ flagged' = IF IsSampled(count, RawFreq(cfg.exchange, cfg.raw_freq))
                           THEN flagged \cup {frames + 1} ELSE flagged
             /\ trade_queue' = sent.queue
             /\ client' = [client EXCEPT
                             !.trade_counter = CounterAfterFrame(count)
                                               + CountedInMessage(cfg.exchange, frame),
                             !.pending = sent.rest]
    /\ UNCHANGED <<cfg, trigger_queue, candle_queue, buffers, engine, sink, buf, hist, msg, caller, timers>>

\* process_message resumes after a send that waited for capacity
SendTrade ==
    /\ Running
    /\ client.pc = "loop"
    /\ client.pending # <<>>
    /\ Len(trade_queue) < TradeCapacity \/ ~TradeReceiverOpen
    /\ LET sent == SendTrades(trade_queue, client.pending, TradeCapacity, TradeReceiverOpen)
       IN  /\ trade_queue' = sent.queue
           /\ client' = [client EXCEPT !.pending = sent.rest]
    /\ UNCHANGED <<cfg, frames, flagged, delivered, trigger_queue, candle_queue,
                   buffers, engine, sink, buf, hist, msg, caller, timers>>

\* the message loop ends: "Err(e) => break" or the stream's end; subscribe_trades
\* returns Ok, main returns and the runtime drops every task with its state
ReadError ==
    /\ client.pc = "loop"
    /\ client.pending = <<>>
    /\ Returns("Ok")

\* a faulty timer task that reaches into the buffer map and drops its
\* timeframe's buffers itself (C25 rejects it)
TimerTickDirect(i) ==
    /\ Running
    /\ i \in timers
    /\ engine.pc # "ended"
    /\ buffers' = RemoveKeys(buffers, FlushKeys(buffers, cfg.timeframes[i]))
    /\ UNCHANGED <<cfg, client, frames, flagged, delivered, trade_queue, trigger_queue,
                   candle_queue, engine, sink, buf, hist, msg, caller, timers>>

\* a timer task: interval.tick() then sender.send(timeframe), which waits for
\* room while the trigger receiver exists; the task exists only for a period
\* that tokio's interval takes (see TimerPanics)
TimerTick(i) ==
    /\ Running
    /\ i \in timers
    /\ cfg.timeframes[i] # 0
    /\ engine.pc # "ended"
    /\ Len(trigger_queue) < TriggerCapacity
    /\ trigger_queue' = Append(trigger_queue, cfg.timeframes[i])
    /\ UNCHANGED <<cfg, client, frames, flagged, delivered, trade_queue, candle_queue,
                   buffers, engine, sink, buf, hist, msg, caller, timers>>

\* a faulty engine that takes trades while its flush waits for room on the
\* candle queue, as a flush spawned beside the loop would (C35 rejects it)
EngineTradeAnytime ==
    /\ Running
    /\ engine.pc # "ended"
    /\ trade_queue # <<>>
    /\ trade_queue' = Tail(trade_queue)
    /\ buffers' = ProcessTrade(buffers, cfg.timeframes, Head(trade_queue))
    /\ UNCHANGED <<cfg, client, frames, flagged, delivered, trigger_queue, candle_queue,
                   engine, sink, buf, hist, msg, caller, timers>>

\* select!: "Some(trade) = self.trade_receiver.recv() => self.process_trade(trade)"
EngineTrade ==
    /\ Running
    /\ engine.pc = "select"
    /\ trade_queue # <<>>
    /\ trade_queue' = Tail(trade_queue)
    /\ buffers' = ProcessTrade(buffers, cfg.timeframes, Head(trade_queue))
    /\ UNCHANGED <<cfg, client, frames, flagged, delivered, trigger_queue, candle_queue,
                   engine, sink, buf, hist, msg, caller, timers>>

\* a faulty flush loop that gives up at the first push that fails (C28
\* rejects it)
RECURSIVE FlushRunStopping(_, _, _, _, _)
FlushRunStopping(queue, todo, bufs, capacity, open) ==
    IF todo = <<>> THEN [queue |-> queue, todo |-> todo]
    ELSE LET k == Head(todo)
         IN  IF ~HasData(bufs[k])
             THEN FlushRunStopping(queue, Tail(todo), bufs, capacity, open)
             ELSE IF open /\ Len(queue) < capacity
             THEN FlushRunStopping(Append(queue, ToTradeCandle(bufs[k], k[1], k[2], k[3],
                                                               AsI32(k[4]))),
                                   Tail(todo), bufs, capacity, open)
             ELSE [queue |-> queue, todo |-> todo]

\* a faulty flush loop that sheds the candle when the queue is full instead of
\* waiting for room (C30 rejects it)
RECURSIVE FlushRunShedding(_, _, _, _, _)
FlushRunShedding(queue, todo, bufs, capacity, open) ==
    IF todo = <<>> THEN [queue |-> queue, todo |-> todo]
    ELSE LET k == Head(todo)
         IN  IF ~HasData(bufs[k]) \/ ~open \/ Len(queue) >= capacity
             THEN FlushRunShedding(queue, Tail(todo), bufs, capacity, open)
             ELSE FlushRunShedding(Append(queue, ToTradeCandle(bufs[k], k[1], k[2], k[3],
                                                               AsI32(k[4]))),
                                   Tail(todo), bufs, capacity, open)

\* a faulty flush loop that never gets a candle onto the queue: it waits at
\* the first buffer that holds data (C37 rejects it)
RECURSIVE FlushRunStuck(_, _, _, _, _)
FlushRunStuck(queue, todo, bufs, capacity, open) ==
    IF todo = <<>> THEN [queue |-> queue, todo |-> todo]
    ELSE IF ~HasData(bufs[Head(todo)])
    THEN FlushRunStuck(queue, Tail(todo), bufs, capacity, open)
    ELSE [queue |-> queue, todo |-> todo]

\* flush_candles_for_timeframe's loop over the buffers in `todo`, up to the
\* first candle_sender.send that has to wait; with the receiver gone (~open)
\* send fails at once
RECURSIVE FlushRun(_, _, _, _, _)
FlushRun(queue, todo, bufs, capacity, open) ==
    IF todo = <<>> THEN [queue |-> queue, todo |-> todo]
    ELSE LET k == Head(todo)
         IN  IF ~HasData(bufs[k]) \/ ~open
             THEN FlushRun(queue, Tail(todo), bufs, capacity, open)
             ELSE IF Len(queue) < capacity
             THEN FlushRun(Append(queue, ToTradeCandle(bufs[k], k[1], k[2], k[3],
                                                       AsI32(k[4]))),
                           Tail(todo), bufs, capacity, open)
             ELSE [queue |-> queue, todo |-> todo]

\* the orders in which a HashMap may yield the keys
Orders(keys) ==
    {o \in [1..Cardinality(keys) -> keys] : \A i, j \in DOMAIN o : i # j => o[i] # o[j]}

\* the flush from `todo` on: to its end (the buffers of the timeframe are
\* removed) or to a send that waits
FlushFrom(todo, timeframe) ==
    LET run == FlushRun(candle_queue, todo, buffers, CandleCapacity, sink.alive)
    IN  /\ candle_queue' = run.queue
        /\ IF run.todo = <<>>
           THEN /\ buffers' = RemoveKeys(buffers, FlushKeys(buffers, timeframe))
                /\ engine' = [pc |-> "select", timeframe |-> 0, todo |-> <<>>]
           ELSE /\ buffers' = buffers
                /\ engine' = [pc |-> "flush", timeframe |-> timeframe, todo |-> run.todo]

\* select!: "Some(timeframe) = trigger_receiver.recv() =>
\* self.flush_candles_for_timeframe(timeframe).await"
EngineTrigger ==
    /\ Running
    /\ engine.pc = "select"
    /\ trigger_queue # <<>>
    /\ trigger_queue' = Tail(trigger_queue)
    /\ \E order \in Orders(FlushKeys(buffers, Head(trigger_queue))) :
         FlushFrom(order, Head(trigger_queue))
    /\ UNCHANGED <<cfg, client, frames, flagged, delivered, trade_queue, sink, buf, hist, msg, caller, timers>>

\* the flush resumes after a send that waited for capacity
FlushResume ==
    /\ Running
    /\ engine.pc = "flush"
    /\ Len(candle_queue) < CandleCapacity \/ ~sink.alive
    /\ FlushFrom(engine.todo, engine.timeframe)
    /\ UNCHANGED <<cfg, client, frames, flagged, delivered, trade_queue, trigger_queue,
                   sink, buf, hist, msg, caller, timers>>

\* the database writer task: "while let Some(candle) = candle_rx.recv().await",
\* then insert_trade_candle -> to_timeseries_document, whose first use of
\* SYMBOL_MANAGER loads src/db/master.csv and panics when that fails: the task
\* ends and candle_rx is dropped with what it holds
SinkRecv ==
    /\ Running
    /\ sink.alive
    /\ candle_queue # <<>>
    /\ IF cfg.master_csv
       THEN /\ candle_queue' = Tail(candle_queue)
            /\ sink' = sink
       ELSE /\ candle_queue' = <<>>
            /\ sink' = [alive |-> FALSE]
    /\ UNCHANGED <<cfg, client, frames, flagged, delivered, trade_queue, trigger_queue,
                   buffers, engine, buf, hist, msg, caller, timers>>

Next ==
    \/ Connect
    \/ Subscribe
    \/ RecvFrame
    \/ SendTrade
    \/ ReadError
    \/ \E i \in 1..Len(cfg.timeframes) : TimerTick(i)
    \/ EngineTrade
    \/ EngineTrigger
    \/ FlushResume
    \/ SinkRecv

Spec == Init /\ [][Next]_vars

-----------------------------------------------------------------------------
(* SpecBuffer: TradeCandleBuffer::update applied to one buffer, any        *)
(* sequence of at most MaxUpdates trades.                                  *)

\* prices and quantities as the clients produce them: parsed values >= 0,
\* 0 for a malformed field
BufferPrices == {F(0), F(98), F(102)}
BufferQuantities == {F(0), Rat(1, 2), F(2)}

BufferTrades ==
    {NewTrade("binance", "spot", "BTCUSDT", "t", p, q, side, 4200) :
        p \in BufferPrices, q \in BufferQuantities, side \in Side}

\* the state of the pipeline while another specification runs
PipelineIdle ==
    /\ cfg = Config("binance", "spot", 2, TRUE)
    /\ client = [pc |-> "new", ws_stream |-> FALSE, market_type |-> None,
                 trade_counter |-> 0, pending |-> <<>>, sent |-> <<>>]
    /\ frames = 0
    /\ flagged = {}
    /\ delivered = {}
    /\ trade_queue = <<>>
    /\ trigger_queue = <<>>
    /\ candle_queue = <<>>
    /\ buffers = EmptyBuffers
    /\ engine = [pc |-> "select", timeframe |-> 0, todo |-> <<>>]
    /\ sink = [alive |-> TRUE]
    /\ timers = {}
    /\ caller = Main

InitBuffer ==
    /\ PipelineIdle
    /\ buf = NewBuffer(4200)
    /\ hist = <<>>
    /\ msg = [exchange |-> "binance", market_type |-> "spot", handled |-> FALSE,
              frame |-> BinaryFrame, out |-> <<>>]

\* buffer.update(&trade)
BufferUpdate ==
    /\ Len(hist) < MaxUpdates
    /\ \E trade \in BufferTrades :
         /\ buf' = Update(buf, trade)
         /\ hist' = Append(hist, trade)
    /\ UNCHANGED <<pipeVars, msg>>

NextBuffer == BufferUpdate

SpecBuffer == InitBuffer /\ [][NextBuffer]_vars

-----------------------------------------------------------------------------
(* SpecMessage: process_message applied to one frame, for every client.    *)

\* the side values a native record may carry, recognised and not
WireSides(exchange) ==
    CASE exchange = "binance" -> BOOLEAN
      [] exchange = "bybit"   -> {"Buy", "Sell", "buy", ""}
      [] OTHER                -> {"A", "B", "a", "S"}

\* the topic values a frame may carry
WireTopics(exchange) ==
    CASE exchange = "binance" -> {Some(<<"aggTrade", "">>), Some(<<"trade", "">>)}
      [] exchange = "bybit"   -> {None, Some(<<"publicTrade", "BTCUSDT">>),
                                  Some(<<"orderbook", "1.BTCUSDT">>)}
      [] OTHER                -> {Some(<<"trades", "">>), Some(<<"l2Book", "">>)}

WireRecords(exchange) ==
    [s : {"BTCUSDT"}, p : {"100", "abc"}, q : {"1", ""}, side : WireSides(exchange),
     T : {4200}, id : {"t1"}]

\* the data a text frame may carry: one record for Binance, an array otherwise
WireData(exchange) ==
    IF exchange = "binance" THEN {<<d>> : d \in WireRecords(exchange)}
    ELSE {<<>>} \cup {<<d>> : d \in WireRecords(exchange)}
         \cup {<<d, e>> : d \in WireRecords(exchange), e \in WireRecords(exchange)}

AllFrames(exchange) ==
    {BinaryFrame}
    \cup {[type |-> "text", json_ok |-> FALSE, topic |-> None, data_ok |-> FALSE,
           data |-> <<>>]}
    \cup [type : {"text"}, json_ok : {TRUE}, topic : WireTopics(exchange),
          data_ok : IF exchange = "bybit" THEN BOOLEAN ELSE {TRUE},
          data : WireData(exchange)]

InitMessage ==
    /\ PipelineIdle
    /\ buf = NewBuffer(0)
    /\ hist = <<>>
    /\ msg \in {[exchange |-> c.exchange, market_type |-> c.market_type, handled |-> FALSE,
                 frame |-> BinaryFrame, out |-> <<>>] : c \in Configs}

\* Self::process_message(msg, ...), once
HandleMessage ==
    /\ ~msg.handled
    /\ \E frame \in AllFrames(msg.exchange) :
         msg' = [msg EXCEPT !.handled = TRUE, !.frame = frame,
                            !.out = ProcessMessage(msg.exchange, msg.market_type, frame)]
    /\ UNCHANGED <<pipeVars, buf, hist>>

NextMessage == HandleMessage

SpecMessage == InitMessage /\ [][NextMessage]_vars

-----------------------------------------------------------------------------
(* Claims                                                                  *)

RECURSIVE SumQ(_, _)
\* the sum of the quantities of the trades of `side` in `trades`
SumQ(trades, side) ==
    IF trades = <<>> THEN Zero
    ELSE FAdd(IF Head(trades).side = side THEN Head(trades).quantity ELSE Zero,
              SumQ(Tail(trades), side))

RECURSIVE SumPQ(_, _)
\* the sum of price * quantity over the trades of `side` in `trades`
SumPQ(trades, side) ==
    IF trades = <<>> THEN Zero
    ELSE FAdd(IF Head(trades).side = side
              THEN FMul(Head(trades).price, Head(trades).quantity) ELSE Zero,
              SumPQ(Tail(trades), side))

RECURSIVE CountSide(_, _)
CountSide(trades, side) ==
    IF trades = <<>> THEN 0
    ELSE (IF Head(trades).side = side THEN 1 ELSE 0) + CountSide(Tail(trades), side)

\* the side state a buffer keeps for the trades of `side`: buy is kept as ask, sell as bid
SideState(b, side) ==
    IF side = "Buy"
    THEN [price |-> b.ask_price, volume |-> b.ask_volume, count |-> b.ask_count]
    ELSE [price |-> b.bid_price, volume |-> b.bid_volume, count |-> b.bid_count]

\* C1: after any sequence of updates, each side's price is sum(p*q)/sum(q) over
\* that side's trades (when sum(q) > 0), its volume is sum(q) and its count is
\* the number of that side's trades.
C1_Vwap ==
    \A side \in Side :
        LET st == SideState(buf, side)
            q  == SumQ(hist, side)
        IN  /\ st.volume = q
            /\ st.count = CountSide(hist, side)
            /\ FGt(q, Zero) => st.price = Some(FDiv(SumPQ(hist, side), q))

\* three buys at two different prices with unequal weights have been applied
C1_Witness ==
    /\ Len(hist) = 3
    /\ \A i \in 1..3 : hist[i].side = "Buy"
    /\ hist[1].price = F(98) /\ hist[1].quantity = F(2)
    /\ hist[2].price = F(102) /\ hist[2].quantity = Rat(1, 2)
    /\ hist[3].price = F(102) /\ hist[3].quantity = F(2)
    /\ buf.ask_price = Some(Rat(902, 9))

\* C2 (as stated): in every reachable state, for every buffer of the engine's
\* map and each side, count = 0 iff price is null iff volume = 0.
C2_SideInvariant ==
    \A k \in DOMAIN buffers : \A side \in Side :
        LET st == SideState(buffers[k], side)
        IN  /\ (st.count = 0) <=> (st.price = None)
            /\ (st.price = None) <=> (st.volume = Zero)

\* the engine takes the head of the trade queue (select!'s trade branch)
TradeHandled ==
    /\ client.pc # "exit" /\ client'.pc # "exit"
    /\ trade_queue # <<>>
    /\ trade_queue' = Tail(trade_queue)

\* what the buffer of key k holds before a trade reaches it
BufferBefore(k, trade) ==
    IF k \in DOMAIN buffers THEN buffers[k] ELSE NewBuffer(trade.timestamp)

\* C3: the step that handles one trade leaves, for every configured timeframe,
\* a buffer of the trade's key that includes the trade (its side's count one
\* higher, its volume higher by the quantity), touches no buffer of another
\* (exchange, market, symbol), and handles no trigger, flush or other trade.
C3_AllTimeframes ==
    [][TradeHandled =>
        LET trade == Head(trade_queue)
        IN  /\ \A i \in 1..Len(cfg.timeframes) :
                 LET k      == KeyOf(trade, cfg.timeframes[i])
                     before == SideState(BufferBefore(k, trade), trade.side)
                 IN  /\ k \in DOMAIN buffers'
                     /\ SideState(buffers'[k], trade.side).count = before.count + 1
                     /\ SideState(buffers'[k], trade.side).volume
                            = FAdd(before.volume, trade.quantity)
            /\ \A k \in DOMAIN buffers' :
                 <<k[1], k[2], k[3]>> # <<trade.exchange, trade.market_type, trade.symbol>>
                     => k \in DOMAIN buffers /\ buffers'[k] = buffers[k]
            /\ DOMAIN buffers \subseteq DOMAIN buffers'
            /\ Len(trade_queue') = Len(trade_queue) - 1
            /\ UNCHANGED <<trigger_queue, candle_queue, engine>>
    ]_vars

\* both buffers of BTCUSDT hold the same two buys
C3_Witness ==
    /\ client.pc = "loop"
    /\ \A tf \in {1, 5} :
         LET k == <<cfg.exchange, cfg.market_type, "BTCUSDT", tf>>
         IN  /\ k \in DOMAIN buffers
             /\ buffers[k].ask_count = 2
             /\ buffers[k].ask_volume = F(2)

\* the engine runs flush_candles_for_timeframe (from its start or resumed after
\* a send that waited)
FlushStep ==
    /\ client.pc # "exit" /\ client'.pc # "exit"
    /\ \/ engine.pc = "flush" /\ engine' # engine
       \/ engine.pc = "select" /\ trigger_queue # <<>> /\ trigger_queue' = Tail(trigger_queue)

\* the timeframe the running flush is for
FlushTimeframe == IF engine.pc = "flush" THEN engine.timeframe ELSE Head(trigger_queue)

\* the buffers the running flush has yet to visit
FlushTodo ==
    IF engine.pc = "flush" THEN Range(engine.todo)
    ELSE FlushKeys(buffers, Head(trigger_queue))

TotalCount(b) == b.ask_count + b.bid_count

\* C4: when flush_candles_for_timeframe(T) completes the map holds no key of
\* timeframe T, whatever was emitted and whether or not the pushes succeeded;
\* a trade whose key is not in the map creates a buffer of total count 1.
C4_FlushRemoves ==
    [][ /\ (FlushStep /\ engine'.pc = "select") =>
              /\ \A k \in DOMAIN buffers' : k[4] # FlushTimeframe
              /\ \A k \in DOMAIN buffers : k[4] # FlushTimeframe =>
                     k \in DOMAIN buffers' /\ buffers'[k] = buffers[k]
        /\ TradeHandled =>
              \A i \in 1..Len(cfg.timeframes) :
                 LET k == KeyOf(Head(trade_queue), cfg.timeframes[i])
                 IN  k \notin DOMAIN buffers =>
                        k \in DOMAIN buffers' /\ TotalCount(buffers'[k]) = 1
    ]_vars

\* the writer task is gone, all three BTCUSDT trades were handled, and the 1 s
\* buffer was flushed (its push failing) and re-created by the last trade while
\* the 5 s buffer kept the last two
C4_Witness ==
    /\ client.pc = "loop" /\ ~sink.alive
    /\ {1, 2, 3} \subseteq delivered /\ trade_queue = <<>> /\ client.pending = <<>>
    /\ LET k1 == <<cfg.exchange, cfg.market_type, "BTCUSDT", 1>>
           k5 == <<cfg.exchange, cfg.market_type, "BTCUSDT", 5>>
       IN  /\ k1 \in DOMAIN buffers /\ TotalCount(buffers[k1]) = 1
           /\ k5 \in DOMAIN buffers /\ TotalCount(buffers[k5]) = 2

\* C5: no candle on the candle queue has ask_count = 0 and bid_count = 0.
C5_NoEmptyCandle ==
    \A i \in DOMAIN candle_queue :
        candle_queue[i].ask_count > 0 \/ candle_queue[i].bid_count > 0

\* a candle with trades on one side only is on the queue
C5_Witness ==
    /\ candle_queue # <<>>
    /\ candle_queue[1].ask_count = 0
    /\ candle_queue[1].bid_count = 1

\* the candles a step appended to the candle queue
Emitted == SubSeq(candle_queue', Len(candle_queue) + 1, Len(candle_queue'))

\* the buffers a flush step visited
Visited == FlushTodo \ Range(engine'.todo)

\* the buffer holds two buys and one sell of BTCUSDT: with the feed's trades,
\* (buy 100 x 1), (buy 102 x 1) and (sell 98 x 2) in some order of arrival
ScenarioFed(k, b) == k[3] = "BTCUSDT" /\ b.ask_count = 2 /\ b.bid_count = 1

\* C6: a flush that visits a buffer fed (buy 100 x 1), (buy 102 x 1),
\* (sell 98 x 2) since the last flush, in any order, emits exactly one candle for
\* it (the writer task being there to receive it), with ask {101, 2, 2} and
\* bid {98, 2, 1}.
C6_Scenario ==
    [][FlushStep =>
        \A k \in Visited :
            (ScenarioFed(k, buffers[k]) /\ sink.alive) =>
                LET mine == {i \in DOMAIN Emitted :
                                /\ Emitted[i].symbol = k[3]
                                /\ Emitted[i].period_seconds = k[4]}
                IN  /\ Cardinality(mine) = 1
                    /\ \A i \in mine :
                         /\ Emitted[i].ask_price = Some(F(101))
                         /\ Emitted[i].ask_volume = F(2)
                         /\ Emitted[i].ask_count = 2
                         /\ Emitted[i].bid_price = Some(F(98))
                         /\ Emitted[i].bid_volume = F(2)
                         /\ Emitted[i].bid_count = 1
    ]_vars

\* the scenario's candle is on the queue
C6_Witness ==
    /\ candle_queue # <<>>
    /\ candle_queue[1].symbol = "BTCUSDT"
    /\ candle_queue[1].ask_price = Some(F(101))
    /\ candle_queue[1].ask_count = 2
    /\ candle_queue[1].bid_price = Some(F(98))
    /\ candle_queue[1].bid_count = 1

\* C7: every candle a flush of timeframe T emits belongs to a buffer the flush
\* visited: it carries period_seconds = T, the key's exchange, market type and
\* symbol, the buffer's side states, and the bucket floor(first / T) * T of the
\* buffer's first trade (seconds), a multiple of T with
\* bucket <= first < bucket + T; the buffer's timestamp is that of the trade
\* that created it.
C7_CandleFields ==
    [][ /\ FlushStep =>
              /\ SubSeq(candle_queue', 1, Len(candle_queue)) = candle_queue
              /\ \A i \in DOMAIN Emitted :
                   LET c == Emitted[i]
                       T == FlushTimeframe
                       k == <<c.exchange, c.market_type, c.symbol, T>>
                   IN  /\ k \in Visited
                       /\ c.period_seconds = T
                       /\ c.ask_price = buffers[k].ask_price
                       /\ c.ask_volume = buffers[k].ask_volume
                       /\ c.ask_count = buffers[k].ask_count
                       /\ c.bid_price = buffers[k].bid_price
                       /\ c.bid_volume = buffers[k].bid_volume
                       /\ c.bid_count = buffers[k].bid_count
                       /\ c.timestamp = (((buffers[k].timestamp \div 1000) \div T) * T) * 1000
                       /\ (c.timestamp \div 1000) % T = 0
                       /\ c.timestamp <= buffers[k].timestamp
                       /\ buffers[k].timestamp < c.timestamp + T * 1000
        /\ TradeHandled =>
              \A i \in 1..Len(cfg.timeframes) :
                 LET k == KeyOf(Head(trade_queue), cfg.timeframes[i])
                 IN  buffers'[k].timestamp
                        = BufferBefore(k, Head(trade_queue)).timestamp
    ]_vars

\* a 5 s candle of a buffer whose first trade came at 5.1 s and whose later
\* trade is older: bucket 5 s
C7_Witness ==
    /\ candle_queue # <<>>
    /\ candle_queue[1].period_seconds = 5
    /\ candle_queue[1].timestamp = 5000
    /\ candle_queue[1].ask_count = 1
    /\ candle_queue[1].bid_count = 1

\* the side mapping as the specification tabulates it
ClaimedSide(exchange, side) ==
    CASE exchange = "binance"     -> IF side = TRUE THEN "Buy" ELSE "Sell"
      [] exchange = "bybit"       -> IF side = "Sell" THEN "Sell" ELSE "Buy"
      [] exchange = "hyperliquid" -> IF side = "A" THEN "Sell" ELSE "Buy"

\* C8: every Trade an adapter builds has the side the table gives for the
\* native side field alone, whatever the record's other fields.
C8_SideMapping ==
    msg.handled =>
        /\ Len(msg.out) = (IF IsTradeEvent(msg.exchange, msg.frame)
                           THEN Len(msg.frame.data) ELSE 0)
        /\ \A i \in DOMAIN msg.out :
             msg.out[i].side = ClaimedSide(msg.exchange, msg.frame.data[i].side)

\* a Hyperliquid frame with an "A" trade and a trade of unrecognised side
C8_Witness ==
    /\ msg.handled
    /\ msg.exchange = "hyperliquid"
    /\ Len(msg.out) = 2
    /\ msg.frame.data[1].side = "A" /\ msg.out[1].side = "Sell"
    /\ msg.frame.data[2].side = "S" /\ msg.out[2].side = "Buy"

\* C9: an update with a buy leaves the bid side as it was and counts on the ask
\* side; an update with a sell leaves the ask side as it was and counts on the
\* bid side.
C9_OneSide ==
    [][hist' # hist =>
        LET trade == hist'[Len(hist')]
        IN  IF trade.side = "Buy"
            THEN /\ SideState(buf', "Sell") = SideState(buf, "Sell")
                 /\ buf'.ask_count = buf.ask_count + 1
                 /\ buf'.ask_volume = FAdd(buf.ask_volume, trade.quantity)
            ELSE /\ SideState(buf', "Buy") = SideState(buf, "Buy")
                 /\ buf'.bid_count = buf.bid_count + 1
                 /\ buf'.bid_volume = FAdd(buf.bid_volume, trade.quantity)
    ]_vars

\* a sell, a buy, a sell were applied; each side holds its own trades
C9_Witness ==
    /\ Len(hist) = 3
    /\ hist[1].side = "Sell" /\ hist[2].side = "Buy" /\ hist[3].side = "Sell"
    /\ buf.ask_count = 1 /\ buf.ask_price = Some(F(102))
    /\ buf.bid_count = 2 /\ buf.bid_price = Some(F(98))

\* C10 (as stated): the frames flagged are exactly those at the ordinals
\* 1, N + 1, 2N + 1, ... of the connection, N the configured --raw-freq.
C10_SampledOrdinals ==
    \A ord \in 1..frames : (ord \in flagged) <=> ((ord - 1) % cfg.raw_freq = 0)

\* C11 (as stated): when connect(market_type) returns success the adapter holds
\* an open transport connection (ws_stream is present).
C11_ConnectOpensTransport ==
    [][(client.pc = "new" /\ client'.pc = "connected") => client'.ws_stream]_vars

\* the control messages the specification names: Binance none, Bybit one
\* subscribe op naming every symbol, Hyperliquid one subscribe per symbol in
\* symbol order
ClaimedControl ==
    CASE cfg.exchange = "binance" -> <<>>
      [] cfg.exchange = "bybit" ->
           <<[op |-> "subscribe",
              args |-> <<<<"publicTrade", cfg.symbols[1]>>, <<"publicTrade", cfg.symbols[2]>>>>]>>
      [] cfg.exchange = "hyperliquid" ->
           <<[method |-> "subscribe", subscription |-> [type |-> "trades", coin |-> cfg.symbols[1]]],
             [method |-> "subscribe", subscription |-> [type |-> "trades", coin |-> cfg.symbols[2]]]>>

\* C12: a frame is read only when every control message has been sent, in the
\* order named; the loop is entered with exactly these messages sent; a
\* subscribe_trades that returns an error has read no frame and pushed no
\* trade, and trades are pushed only from the message loop.
C12_SubscribeBeforeRead ==
    [][ /\ (frames' # frames) => (client.pc = "loop" /\ client.sent = ClaimedControl)
        /\ (client.pc = "connected" /\ client'.pc = "loop") => client'.sent = ClaimedControl
        /\ (client.pc = "connected" /\ client'.pc = "exit") =>
              /\ frames = 0 /\ frames' = 0
              /\ delivered = {} /\ delivered' = {}
              /\ trade_queue = <<>> /\ trade_queue' = <<>>
        /\ (Len(trade_queue') > Len(trade_queue)) => client.pc = "loop"
    ]_vars

\* Hyperliquid: both subscribe messages went out, BTCUSDT first, and a trade
\* of the first frame is on the trade queue
C12_Witness ==
    /\ cfg.exchange = "hyperliquid"
    /\ client.pc = "loop"
    /\ Len(client.sent) = 2
    /\ client.sent[1].subscription.coin = "BTCUSDT"
    /\ client.sent[2].subscription.coin = "ETHUSDT"
    /\ frames = 1
    /\ trade_queue # <<>>

-----------------------------------------------------------------------------
(* SpecClient: an exchange client driven through the ExchangeClient trait   *)
(* (connect, subscribe_trades, disconnect) by a caller that holds the       *)
(* trade receiver, calls the methods in any order and may drop the          *)
(* receiver. client.pc = "idle" when no method is running.                  *)

\* a faulty disconnect that leaves the stream in place (C13 rejects it)
DisconnectedKeepsStream(c) == c

\* the client's fields after disconnect: self.ws_stream.take()
Disconnected(c) == [c EXCEPT !.ws_stream = FALSE]

InitClient ==
    /\ cfg \in Configs
    /\ client = [pc |-> "idle", ws_stream |-> FALSE, market_type |-> None,
                 trade_counter |-> 0, pending |-> <<>>, sent |-> <<>>]
    /\ frames = 0
    /\ flagged = {}
    /\ delivered = {}
    /\ trade_queue = <<>>
    /\ trigger_queue = <<>>
    /\ candle_queue = <<>>
    /\ buffers = EmptyBuffers
    /\ engine = [pc |-> "select", timeframe |-> 0, todo |-> <<>>]
    /\ sink = [alive |-> TRUE]
    /\ timers = {}
    /\ caller = [kind |-> "api", op |-> "none", ret |-> "none", tick |-> 0, trade_rx |-> TRUE]
    /\ buf = NewBuffer(0)
    /\ hist = <<>>
    /\ msg = [exchange |-> "binance", market_type |-> "spot", handled |-> FALSE,
              frame |-> BinaryFrame, out |-> <<>>]

\* client.connect(market_type).await: Ok, or the handshake's error, which
\* leaves the client as it was
ApiConnect ==
    /\ client.pc = "idle"
    /\ \E market_type \in {cfg.market_type, "spot"} :
         \/ /\ client' = Connected(client, cfg.exchange, market_type)
            /\ caller' = [caller EXCEPT !.op = "connect", !.ret = "Ok", !.tick = 1 - @]
         \/ /\ cfg.exchange # "binance"
            /\ client' = client
            /\ caller' = [caller EXCEPT !.op = "connect", !.ret = "Err", !.tick = 1 - @]
    /\ UNCHANGED <<cfg, frames, flagged, delivered, trade_queue, trigger_queue, candle_queue,
                   buffers, engine, sink, buf, hist, msg, timers>>

\* client.subscribe_trades(symbols).await begins: Binance unwraps market_type
\* (a panic when connect was never called); Bybit and Hyperliquid skip
\* everything and return Ok when they hold no stream
ApiSubscribe ==
    /\ client.pc = "idle"
    /\ IF cfg.exchange = "binance"
       THEN IF client.market_type = None
            THEN /\ client' = [client EXCEPT !.pc = "exit"]
                 /\ caller' = [caller EXCEPT !.op = "subscribe_trades", !.ret = "panic",
                                             !.tick = 1 - @]
            ELSE /\ client' = [client EXCEPT !.pc = "connected", !.sent = <<>>]
                 /\ caller' = [caller EXCEPT !.op = "subscribe_trades", !.ret = "none",
                                             !.tick = 1 - @]
       ELSE IF ~client.ws_stream
            THEN /\ client' = client
                 /\ caller' = [caller EXCEPT !.op = "subscribe_trades", !.ret = "Ok",
                                             !.tick = 1 - @]
            ELSE /\ client' = [client EXCEPT !.pc = "connected", !.sent = <<>>]
                 /\ caller' = [caller EXCEPT !.op = "subscribe_trades", !.ret = "none",
                                             !.tick = 1 - @]
    /\ UNCHANGED <<cfg, frames, flagged, delivered, trade_queue, trigger_queue, candle_queue,
                   buffers, engine, sink, buf, hist, msg, timers>>

\* client.disconnect().await: the stream is taken out of the client and
\* closed; close's error is returned, the stream is gone either way
ApiDisconnect ==
    /\ client.pc = "idle"
    /\ client' = Disconnected(client)
    /\ \E ret \in IF client.ws_stream THEN {"Ok", "Err"} ELSE {"Ok"} :
         caller' = [caller EXCEPT !.op = "disconnect", !.ret = ret, !.tick = 1 - @]
    /\ UNCHANGED <<cfg, frames, flagged, delivered, trade_queue, trigger_queue, candle_queue,
                   buffers, engine, sink, buf, hist, msg, timers>>

\* the caller takes a trade from the receiver
ApiRecvTrade ==
    /\ caller.trade_rx
    /\ trade_queue # <<>>
    /\ trade_queue' = Tail(trade_queue)
    /\ UNCHANGED <<cfg, client, frames, flagged, delivered, trigger_queue, candle_queue,
                   buffers, engine, sink, buf, hist, msg, caller, timers>>

\* the caller drops the receiver and what it holds
ApiDropReceiver ==
    /\ caller.trade_rx
    /\ caller' = [caller EXCEPT !.trade_rx = FALSE]
    /\ trade_queue' = <<>>
    /\ UNCHANGED <<cfg, client, frames, flagged, delivered, trigger_queue, candle_queue,
                   buffers, engine, sink, buf, hist, msg, timers>>

NextClient ==
    \/ ApiConnect
    \/ ApiSubscribe
    \/ Subscribe
    \/ RecvFrame
    \/ SendTrade
    \/ ReadError
    \/ ApiDisconnect
    \/ ApiRecvTrade
    \/ ApiDropReceiver

SpecClient == InitClient /\ [][NextClient]_vars

\* a step in which a call of disconnect() returns
DisconnectReturns == caller'.tick # caller.tick /\ caller'.op = "disconnect"

\* C13: after a disconnect() the client holds no stream and nothing else of it
\* has changed; on a client that holds no stream disconnect() returns Ok and
\* changes nothing.
C13_DisconnectIdempotent ==
    [][DisconnectReturns =>
        /\ ~client'.ws_stream
        /\ client' = [client EXCEPT !.ws_stream = FALSE]
        /\ ~client.ws_stream => (caller'.ret = "Ok" /\ client' = client)
        /\ UNCHANGED <<cfg, frames, flagged, delivered, trade_queue>>
    ]_vars

\* a client that was connected and read two frames holds no stream after a
\* disconnect() that returned Ok
C13_Witness ==
    /\ caller.op = "disconnect" /\ caller.ret = "Ok" /\ caller.tick = 0
    /\ client.pc = "idle"
    /\ client.market_type # None
    /\ ~client.ws_stream
    /\ frames = 2

\* C14 (as stated): a read error on the connection ends only the client's
\* message loop: the engine with the buffers it holds, the timers and the
\* writer task are afterwards as they were, so that the buffers can still be
\* flushed to the writer.
C14_ReadErrorEndsOnlyLoop ==
    [][(client.pc = "loop" /\ client'.pc = "exit" /\ buffers # EmptyBuffers) =>
        /\ buffers' = buffers
        /\ engine' = engine
        /\ timers' = timers
        /\ sink' = sink
        /\ candle_queue' = candle_queue
    ]_vars

C16_NonTradeDiscarded ==
    [][(frames' = frames + 1 /\ delivered' = delivered) =>
        /\ trade_queue' = trade_queue
        /\ client'.pending = <<>>
        /\ client'.pc = "loop"
        /\ buffers' = buffers
    ]_vars

\* three frames that are no trade events were read; the loop is running and
\* no Trade exists anywhere
C16_Witness ==
    /\ frames = 3 /\ delivered = {}
    /\ client.pc = "loop" /\ client.pending = <<>>
    /\ trade_queue = <<>>
    /\ buffers = EmptyBuffers

\* the number the specification gives a numeric text: its value, 0.0 when it
\* does not parse
ClaimedNumber(text) ==
    CASE text = "100" -> F(100)
      [] text = "1"   -> F(1)
      [] OTHER        -> Zero

\* C17: a trade event yields one Trade per record, also for a record whose
\* price or quantity does not parse: that field is 0.0, the other numeric field
\* has its value, and exchange, market type, symbol, trade id and timestamp
\* are the event's.
C17_MalformedNumberKept ==
    (msg.handled /\ IsTradeEvent(msg.exchange, msg.frame)) =>
        /\ Len(msg.out) = Len(msg.frame.data)
        /\ \A i \in DOMAIN msg.out :
             LET d == msg.frame.data[i]
                 t == msg.out[i]
             IN  /\ t.price = ClaimedNumber(d.p)
                 /\ t.quantity = ClaimedNumber(d.q)
                 /\ t.exchange = msg.exchange
                 /\ t.market_type = msg.market_type
                 /\ t.symbol = d.s
                 /\ t.trade_id = d.id
                 /\ t.timestamp = d.T

\* a record with an unparsable price and one with an unparsable quantity, in
\* one frame: both Trades are there, with 0.0 in these fields
C17_Witness ==
    /\ msg.handled
    /\ Len(msg.out) = 2
    /\ msg.frame.data[1].p = "abc" /\ msg.frame.data[1].q = "1"
    /\ msg.out[1].price = Zero /\ msg.out[1].quantity = F(1)
    /\ msg.frame.data[2].p = "100" /\ msg.frame.data[2].q = ""
    /\ msg.out[2].price = F(100) /\ msg.out[2].quantity = Zero

\* `p` is a prefix of `q`
IsPrefix(p, q) == Len(p) <= Len(q) /\ SubSeq(q, 1, Len(p)) = p

\* the trades the adapter has produced and the engine has not received: those
\* in the trade queue, then those the blocked sender still holds
TradesInFlight == trade_queue \o client.pending

\* C18: while the pipeline runs, the trade queue and the candle queue hold at
\* most their capacity; a step only removes the head of a queue (its consumer
\* receives it) or appends at its back; every trade event delivered by the feed
\* is in the trade queue or held by the waiting sender, and nothing in flight is
\* lost; the adapter stops sending with trades in hand only before a full trade
\* queue, the engine stops inside a flush only before a full candle queue. The candle queue's part holds while the writer task
\* is alive.
C18_Backpressure ==
    [][Running' =>
        /\ Len(trade_queue') <= TradeCapacity
        /\ Len(candle_queue') <= CandleCapacity
        /\ \/ /\ trade_queue # <<>>
              /\ trade_queue' = Tail(trade_queue)
              /\ TradesInFlight' = Tail(TradesInFlight)
              /\ buffers' = ProcessTrade(buffers, cfg.timeframes, Head(trade_queue))
           \/ /\ IsPrefix(trade_queue, trade_queue')
              /\ IsPrefix(TradesInFlight, TradesInFlight')
              /\ Len(TradesInFlight') =
                    Len(TradesInFlight) + Cardinality(delivered' \ delivered)
        /\ (client' # client /\ client'.pending # <<>>) =>
                Len(trade_queue') = TradeCapacity
        /\ sink'.alive =>
             /\ \/ candle_queue # <<>> /\ candle_queue' = Tail(candle_queue)
                \/ IsPrefix(candle_queue, candle_queue')
             /\ (engine' # engine /\ engine'.pc = "flush") =>
                     Len(candle_queue') = CandleCapacity
    ]_vars

\* both producers wait at once: the adapter holds a trade before a full trade
\* queue, the engine is in a flush before a full candle queue, the writer lives
C18_Witness ==
    /\ Running
    /\ client.pending # <<>>
    /\ Len(trade_queue) = TradeCapacity
    /\ engine.pc = "flush"
    /\ Len(candle_queue) = CandleCapacity
    /\ sink.alive

\* the trade ids of a sequence of Trades, in order
TradeIds(trades) == [j \in 1..Len(trades) |-> trades[j].trade_id]

\* the ids of the feed's events `is`, in the order of the frame's array
EventIds(exchange, is) == [j \in 1..Len(is) |-> FeedEvents(exchange)[is[j]].id]

-----------------------------------------------------------------------------
(* SpecTimer: the pipeline of the two shipped binaries when the engine     *)
(* task may end while the runtime lives (its future is aborted or a panic  *)
(* unwinds it), which drops the trade and trigger receivers.               *)

InitTimer == Init /\ cfg.master_csv /\ cfg.exchange \in {"binance", "bybit"}

\* TradeCandleBuilder::start's future is dropped: trade_receiver,
\* trigger_receiver, the buffers and candle_sender go with it, and what the two
\* queues hold is lost; the timer tasks were spawned on their own and live on
EngineEnds ==
    /\ Running
    /\ engine.pc # "ended"
    /\ engine' = [pc |-> "ended", timeframe |-> 0, todo |-> <<>>]
    /\ trade_queue' = <<>>
    /\ trigger_queue' = <<>>
    /\ buffers' = EmptyBuffers
    /\ UNCHANGED <<cfg, client, frames, flagged, delivered, candle_queue, sink,
                   buf, hist, msg, caller, timers>>

\* a faulty failure path that takes every timer task down with the one whose
\* send failed (C20 rejects it)
TimerSendFailsAll(i) ==
    /\ Running
    /\ i \in timers
    /\ engine.pc = "ended"
    /\ timers' = {}
    /\ UNCHANGED <<cfg, client, frames, flagged, delivered, trade_queue, trigger_queue,
                   candle_queue, buffers, engine, sink, buf, hist, msg, caller>>

\* a timer task whose sender.send(timeframe) fails, the receiver being gone:
\* "failed to send" is logged and the task breaks out of its loop
TimerSendFails(i) ==
    /\ Running
    /\ i \in timers
    /\ engine.pc = "ended"
    /\ timers' = timers \ {i}
    /\ UNCHANGED <<cfg, client, frames, flagged, delivered, trade_queue, trigger_queue,
                   candle_queue, buffers, engine, sink, buf, hist, msg, caller>>

NextTimer ==
    \/ Next
    \/ EngineEnds
    \/ \E i \in 1..Len(cfg.timeframes) : TimerSendFails(i)

SpecTimer == InitTimer /\ [][NextTimer]_vars

FlushCompletes == FlushStep /\ engine'.pc = "select"

\* C21: while the pipeline runs, a key enters the map only by a handled trade
\* of that key, with that trade as its only content; a buffer in the map
\* changes only by a handled trade of its key; a key leaves the map only when a
\* flush of its own timeframe completes; and no key of timeframe T is in the
\* map when a flush of T has completed.
C21_BufferLifecycle ==
    [][Running' =>
        \A k \in DOMAIN buffers \cup DOMAIN buffers' :
            /\ (k \notin DOMAIN buffers /\ k \in DOMAIN buffers') =>
                  /\ TradeHandled
                  /\ k = KeyOf(Head(trade_queue), k[4])
                  /\ TotalCount(buffers'[k]) = 1
            /\ (k \in DOMAIN buffers /\ k \in DOMAIN buffers' /\ buffers'[k] # buffers[k]) =>
                  /\ TradeHandled
                  /\ k = KeyOf(Head(trade_queue), k[4])
            /\ (k \in DOMAIN buffers /\ k \notin DOMAIN buffers') =>
                  FlushCompletes /\ k[4] = FlushTimeframe
            /\ (FlushCompletes /\ k[4] = FlushTimeframe) => k \notin DOMAIN buffers'
    ]_vars

\* the 1 s buffer of BTCUSDT was created, flushed into the candle on the queue
\* and is absent again, while the 5 s buffer of the same trade is still there
C21_Witness ==
    /\ Running
    /\ engine.pc = "select"
    /\ <<cfg.exchange, cfg.market_type, "BTCUSDT", 1>> \notin DOMAIN buffers
    /\ <<cfg.exchange, cfg.market_type, "BTCUSDT", 5>> \in DOMAIN buffers
    /\ candle_queue # <<>>
    /\ candle_queue[1].symbol = "BTCUSDT" /\ candle_queue[1].period_seconds = 1

-----------------------------------------------------------------------------
(* SpecSink: the database writer task of main and                          *)
(* Database::insert_trade_candle, fed at most MaxCandles candles of any    *)
(* period the command line can ask for. Here `sink` also holds the         *)
(* Database (is_dummy, the documents written) and the outcome of the       *)
(* writer's calls.                                                         *)

\* the candles fed to the writer, over the whole run
MaxCandles == 3

\* periods --timeframes can produce: some with a collection, some without
SinkPeriods == {1, 60, 86400, 2, 100}

\* the candle of one buy of BTCUSDT, for the period given
SinkCandle(period) ==
    ToTradeCandle(Update(NewBuffer(4200),
                         NewTrade("bybit", "linear", "BTCUSDT", "t1", F(100), F(1), "Buy", 4200)),
                  "bybit", "linear", "BTCUSDT", AsI32(period))

\* src/db/master.csv as SymbolManager::new reads it: (exchange, symbol,
\* market_type) -> symbol_id
SymbolMap == [k \in {<<"bybit", "BTCUSDT", "linear">>} |-> 7]

\* SymbolManager::get_symbol_id
GetSymbolId(exchange, symbol, market_type) ==
    IF <<exchange, symbol, market_type>> \in DOMAIN SymbolMap
    THEN Some(SymbolMap[<<exchange, symbol, market_type>>]) ELSE None

\* TradeCandle::to_timeseries_document once SYMBOL_MANAGER is loaded (the
\* calendar month "ym" is left out)
ToTimeseriesDocument(candle) ==
    [unixtime |-> TimestampSecs(candle.timestamp) * 1000,
     symbol |-> UnwrapOr(GetSymbolId(candle.exchange, candle.symbol, candle.market_type), 0),
     ask_price |-> candle.ask_price, ask_volume |-> candle.ask_volume,
     ask_count |-> candle.ask_count,
     bid_price |-> candle.bid_price, bid_volume |-> candle.bid_volume,
     bid_count |-> candle.bid_count]

\* insert_trade_candle: "match candle.period_seconds"
CollectionName(period_seconds) ==
    CASE period_seconds = 1     -> Some("candles_1s")
      [] period_seconds = 5     -> Some("candles_5s")
      [] period_seconds = 10    -> Some("candles_10s")
      [] period_seconds = 30    -> Some("candles_30s")
      [] period_seconds = 60    -> Some("candles_1m")
      [] period_seconds = 300   -> Some("candles_5m")
      [] period_seconds = 900   -> Some("candles_15m")
      [] period_seconds = 1800  -> Some("candles_30m")
      [] period_seconds = 3600  -> Some("candles_1h")
      [] period_seconds = 7200  -> Some("candles_2h")
      [] period_seconds = 14400 -> Some("candles_4h")
      [] period_seconds = 86400 -> Some("candles_1d")
      [] OTHER                  -> None

\* Database::insert_trade_candle: its outcome ("Ok", "Err", or "panic" when the
\* first use of SYMBOL_MANAGER cannot load src/db/master.csv) and the documents
\* it inserts; insert_ok is whether collection.insert_one succeeds
InsertTradeCandle(is_dummy, candle, master_csv, insert_ok) ==
    IF ~master_csv THEN [result |-> "panic", docs |-> <<>>]
    ELSE LET doc        == ToTimeseriesDocument(candle)
             collection == CollectionName(candle.period_seconds)
         IN  IF collection = None THEN [result |-> "Err", docs |-> <<>>]
             ELSE IF is_dummy THEN [result |-> "Ok", docs |-> <<>>]
             ELSE IF insert_ok
             THEN [result |-> "Ok", docs |-> <<[collection |-> collection[1], doc |-> doc]>>]
             ELSE [result |-> "Err", docs |-> <<>>]

InitSink ==
    /\ \E master_csv \in BOOLEAN : cfg = Config("bybit", "linear", 2, master_csv)
    /\ client = [pc |-> "new", ws_stream |-> FALSE, market_type |-> None,
                 trade_counter |-> 0, pending |-> <<>>, sent |-> <<>>]
    /\ frames = 0
    /\ flagged = {}
    /\ delivered = {}
    /\ trade_queue = <<>>
    /\ trigger_queue = <<>>
    /\ candle_queue = <<>>
    /\ buffers = EmptyBuffers
    /\ engine = [pc |-> "select", timeframe |-> 0, todo |-> <<>>]
    /\ \E is_dummy \in BOOLEAN :
         sink = [alive |-> TRUE, is_dummy |-> is_dummy, written |-> <<>>,
                 calls |-> 0, candle |-> <<>>, result |-> "none"]
    /\ timers = {}
    /\ caller = Main
    /\ buf = NewBuffer(0)
    /\ hist = <<>>
    /\ msg = [exchange |-> "binance", market_type |-> "spot", handled |-> FALSE,
              frame |-> BinaryFrame, out |-> <<>>]

\* the engine pushes one candle: candle_sender.send(candle).await
SinkFeed ==
    /\ sink.alive
    /\ frames < MaxCandles
    /\ Len(candle_queue) < CandleCapacity
    /\ frames' = frames + 1
    /\ \E period \in SinkPeriods : candle_queue' = Append(candle_queue, SinkCandle(period))
    /\ UNCHANGED <<cfg, client, flagged, delivered, trade_queue, trigger_queue,
                   buffers, engine, sink, buf, hist, msg, caller, timers>>

\* one turn of the writer task: candle_rx.recv(), println, then
\* "if let Err(e) = db.insert_trade_candle(&candle).await { error!(..) }";
\* a panic unwinds the task and drops candle_rx with what it holds
WriterRecv ==
    /\ sink.alive
    /\ candle_queue # <<>>
    /\ \E insert_ok \in BOOLEAN :
         LET candle == Head(candle_queue)
             r      == InsertTradeCandle(sink.is_dummy, candle, cfg.master_csv, insert_ok)
         IN  /\ sink' = [sink EXCEPT !.alive = r.result # "panic",
                                     !.written = @ \o r.docs,
                                     !.calls = @ + 1,
                                     !.candle = <<candle>>,
                                     !.result = r.result]
             /\ candle_queue' = IF r.result = "panic" THEN <<>> ELSE Tail(candle_queue)
    /\ UNCHANGED <<cfg, client, frames, flagged, delivered, trade_queue, trigger_queue,
                   buffers, engine, buf, hist, msg, caller, timers>>

NextSink == SinkFeed \/ WriterRecv

SpecSink == InitSink /\ [][NextSink]_vars

\* the periods the specification says the sink accepts
ClaimedPeriods == {1, 5, 10, 30, 60, 300, 900, 1800, 3600, 7200, 14400, 86400}

\* the writer has just called insert_trade_candle
InsertCalled == sink'.calls = sink.calls + 1

\* C22: every call of insert_trade_candle for a candle whose period is not a
\* supported one returns an error and writes nothing, in real and in dummy
\* mode; a call in dummy mode for a supported period returns success and
\* writes nothing.
C22_UnsupportedPeriodRejected ==
    [][InsertCalled =>
        LET period == Head(candle_queue).period_seconds
        IN  /\ period \notin ClaimedPeriods =>
                  sink'.result = "Err" /\ sink'.written = sink.written
            /\ (period \in ClaimedPeriods /\ sink.is_dummy) =>
                  sink'.result = "Ok" /\ sink'.written = sink.written
    ]_vars

\* C23: a delivery that fails is not retried and does not stop the writer: the
\* task is still alive after it, the failed candle is gone from the queue and
\* was not written, and the rest of the queue is still there to be received.
C23_FailedDeliverySkipped ==
    [][(InsertCalled /\ sink'.result # "Ok") =>
        /\ sink'.alive
        /\ candle_queue' = Tail(candle_queue)
        /\ sink'.written = sink.written
    ]_vars

\* C24: a run whose symbol table cannot be loaded never starts the pipeline (no
\* adapter connects, no trade is processed, no candle reaches the candle
\* queue), and once the adapter has connected no task of a running pipeline
\* has terminated: the writer is alive and every timer runs.
C24_SymbolTableBeforePipeline ==
    /\ ~cfg.master_csv =>
          /\ client.pc \in {"new", "exit"}
          /\ delivered = {}
          /\ buffers = EmptyBuffers
          /\ candle_queue = <<>>
    /\ (Running /\ client.pc # "new") =>
          sink.alive /\ timers = DOMAIN cfg.timeframes

\* C25: while the pipeline runs the buffer map changes only in a step in which
\* the engine handles a trade or runs a flush; a step of the adapter (a frame
\* read, a control message or a trade sent), of a timer (a trigger posted) or
\* of the writer (a candle received) leaves it unchanged; and the engine never
\* handles a trade and a flush in one step, takes at most one trade or one
\* trigger per step, and takes no trade while a flush is under way.
C25_EngineOwnsBuffers ==
    [][Running' =>
        /\ buffers' # buffers => (TradeHandled \/ FlushStep)
        /\ (client' # client \/ frames' # frames) => buffers' = buffers
        /\ Len(trigger_queue') > Len(trigger_queue) => buffers' = buffers
        /\ (sink' # sink \/ (candle_queue # <<>> /\ candle_queue' = Tail(candle_queue)))
              => buffers' = buffers
        /\ ~(TradeHandled /\ FlushStep)
        /\ Len(trade_queue') >= Len(trade_queue) - 1
        /\ Len(trigger_queue') >= Len(trigger_queue) - 1
        /\ engine.pc = "flush" => Len(trade_queue') >= Len(trade_queue)
    ]_vars

\* the engine is inside a flush that waits for the writer, a trade waits in
\* the trade queue, the adapter holds another, and a trigger has been posted
C25_Witness ==
    /\ Running
    /\ engine.pc = "flush"
    /\ buffers # EmptyBuffers
    /\ trade_queue # <<>>
    /\ client.pending # <<>>
    /\ trigger_queue # <<>>

\* C26: a step of flush_candles_for_timeframe(T) leaves every buffer of another
\* timeframe in the map as it was, and every candle it pushes has period T.
C26_FlushOwnTimeframeOnly ==
    [][FlushStep =>
        /\ \A k \in DOMAIN buffers :
              k[4] # FlushTimeframe => k \in DOMAIN buffers' /\ buffers'[k] = buffers[k]
        /\ IsPrefix(candle_queue, candle_queue')
        /\ \A j \in (Len(candle_queue) + 1)..Len(candle_queue') :
              candle_queue'[j].period_seconds = FlushTimeframe
    ]_vars

\* a flush of 5 s has pushed its candle and removed the 5 s buffer of BTCUSDT,
\* and the 1 s buffer of the same symbol is still in the map
C26_Witness ==
    /\ Running
    /\ engine.pc = "select"
    /\ <<cfg.exchange, cfg.market_type, "BTCUSDT", 5>> \notin DOMAIN buffers
    /\ <<cfg.exchange, cfg.market_type, "BTCUSDT", 1>> \in DOMAIN buffers
    /\ candle_queue # <<>>
    /\ candle_queue[1].symbol = "BTCUSDT" /\ candle_queue[1].period_seconds = 5

\* C27: the step that handles a trade leaves each of its buffers with the
\* timestamp the buffer had before, or, for a buffer the trade creates, with
\* the trade's own timestamp; the timestamps of later trades, earlier or later
\* than the first, do not enter.
C27_TimestampOfFirstTrade ==
    [][TradeHandled =>
        LET trade == Head(trade_queue)
        IN  \A i \in 1..Len(cfg.timeframes) :
               LET k == KeyOf(trade, cfg.timeframes[i])
               IN  buffers'[k].timestamp =
                      IF k \in DOMAIN buffers THEN buffers[k].timestamp
                      ELSE trade.timestamp
    ]_vars

\* the 5 s buffer of BTCUSDT was created by the trade of 4900 ms and has since
\* taken the trade of 4200 ms (earlier) and the trade of 5100 ms (later)
C27_Witness ==
    /\ Running
    /\ LET k == <<cfg.exchange, cfg.market_type, "BTCUSDT", 5>>
       IN  /\ k \in DOMAIN buffers
           /\ buffers[k].timestamp = 4900
           /\ TotalCount(buffers[k]) = 3

\* a step of a flush in which a push fails: the writer task is gone and the
\* flush has a buffer with trades still to visit
FlushPushFails ==
    /\ FlushStep
    /\ ~sink.alive
    /\ \E k \in FlushTodo : HasData(buffers[k])

\* C28: a flush whose push fails on a gone receiver runs to its end in the
\* same step: no buffer of its timeframe is left, the other buffers are as
\* they were, nothing is put on the candle queue, the engine is back at its
\* select with the trade queue untouched; and with the receiver gone the
\* candle queue stays empty, so the trades of the failed candle are in no
\* later candle.
C28_FlushSurvivesPushFailure ==
    [][Running' =>
        /\ FlushPushFails =>
              /\ engine'.pc = "select"
              /\ \A k \in DOMAIN buffers' :
                    k[4] # FlushTimeframe /\ k \in DOMAIN buffers /\ buffers'[k] = buffers[k]
              /\ \A k \in DOMAIN buffers : k[4] # FlushTimeframe => k \in DOMAIN buffers'
              /\ trade_queue' = trade_queue
        /\ ~sink'.alive => candle_queue' = <<>>
    ]_vars

\* the writer task is gone, two trades of BTCUSDT were handled, both
\* timeframes were flushed (with room for one candle, at least one push came
\* after the writer's end and failed), and the engine has emptied the map
C28_Witness ==
    /\ Running
    /\ ~sink.alive
    /\ delivered = {1, 2}
    /\ trade_queue = <<>> /\ client.pending = <<>>
    /\ engine.pc = "select"
    /\ buffers = EmptyBuffers
    /\ trigger_queue # <<>>

-----------------------------------------------------------------------------
(* SpecCounter: the message loop of a client that has already read many    *)
(* frames, so that trade_counter is at or near its reset threshold; the    *)
(* caller of the API holds the trade receiver.                             *)

\* values trade_counter has between two frames of a long connection
CounterStarts == {0, CounterLimit - 1, CounterLimit}

InitCounter ==
    /\ cfg \in Configs
    /\ \E count \in CounterStarts :
         client = [pc |-> "loop", ws_stream |-> TRUE, market_type |-> Some(cfg.market_type),
                   trade_counter |-> count, pending |-> <<>>,
                   sent |-> SubscribeMessages(cfg.exchange, cfg.symbols)]
    /\ frames = 0
    /\ flagged = {}
    /\ delivered = {}
    /\ trade_queue = <<>>
    /\ trigger_queue = <<>>
    /\ candle_queue = <<>>
    /\ buffers = EmptyBuffers
    /\ engine = [pc |-> "select", timeframe |-> 0, todo |-> <<>>]
    /\ sink = [alive |-> TRUE]
    /\ timers = {}
    /\ caller = [kind |-> "api", op |-> "subscribe_trades", ret |-> "none", tick |-> 0,
                 trade_rx |-> TRUE]
    /\ buf = NewBuffer(0)
    /\ hist = <<>>
    /\ msg = [exchange |-> "binance", market_type |-> "spot", handled |-> FALSE,
              frame |-> BinaryFrame, out |-> <<>>]

NextCounter ==
    \/ RecvFrame
    \/ SendTrade
    \/ ReadError
    \/ ApiRecvTrade

SpecCounter == InitCounter /\ [][NextCounter]_vars

\* the most trades one frame of the feed carries
MostFrameTrades == IF cfg.exchange = "binance" THEN 1 ELSE 2

\* the loop has read one frame in this step
FrameRead == frames' = frames + 1

\* C29: the counter, right after the loop's increment and after the frame, is
\* at most 1,000,001 plus the trades of one frame; and the Trades a frame adds
\* to those in flight are the frame's events in their order with the numbers,
\* side and key the event gives, whatever the counter's value and raw_freq are.
C29_CounterBoundedNoEffect ==
    [][FrameRead =>
        LET new == delivered' \ delivered
        IN  /\ client.trade_counter + 1 <= 1000001 + MostFrameTrades
            /\ client'.trade_counter <= 1000001 + Cardinality(new)
            /\ \E is \in FrameEvents(cfg.exchange) :
                  /\ Range(is) = new
                  /\ Len(TradesInFlight') = Len(TradesInFlight) + Len(is)
                  /\ \A j \in 1..Len(is) :
                        LET d == FeedEvents(cfg.exchange)[is[j]]
                            t == TradesInFlight'[Len(TradesInFlight) + j]
                        IN  /\ t.trade_id = d.id /\ t.symbol = d.s /\ t.timestamp = d.T
                            /\ t.price = UnwrapOr(ParseF64(d.p), Zero)
                            /\ t.quantity = UnwrapOr(ParseF64(d.q), Zero)
                            /\ t.exchange = cfg.exchange
                            /\ t.market_type = cfg.market_type
    ]_vars

\* three frames were read and the counter is below 3: one of them found the
\* counter at or past the threshold and reset it, and the trades were pushed
\* all the same
C29_Witness ==
    /\ frames = 3
    /\ client.trade_counter <= 2
    /\ Cardinality(delivered) >= 2
    /\ client.pc = "loop"

\* the sum of ask_count + bid_count over the buffers of `keys`
RECURSIVE CountIn(_, _)
CountIn(bufs, keys) ==
    IF keys = {} THEN 0
    ELSE LET k == CHOOSE k \in keys : TRUE
         IN  TotalCount(bufs[k]) + CountIn(bufs, keys \ {k})

\* the sum of ask_count + bid_count over the candles of period T in `candles`
RECURSIVE CandleCount(_, _)
CandleCount(candles, T) ==
    IF candles = <<>> THEN 0
    ELSE (IF Head(candles).period_seconds = T
          THEN Head(candles).ask_count + Head(candles).bid_count ELSE 0)
         + CandleCount(Tail(candles), T)

\* the trades in the T-buffers of the map
InMap(T) == CountIn(buffers, FlushKeys(buffers, T))

\* the trades in the T-buffers of the map that a flush of T under way has not
\* yet turned into a candle (outside a flush of T: all T-buffers)
NotEmitted(T) ==
    CountIn(buffers,
            {k \in FlushKeys(buffers, T) :
                (engine.pc = "flush" /\ engine.timeframe = T) => k \in Range(engine.todo)})

\* the trades in the candles of period T this step pushes
PushedNow(T) ==
    IF FlushStep
    THEN CandleCount(SubSeq(candle_queue', Len(candle_queue) + 1, Len(candle_queue')), T)
    ELSE 0

\* the trades this step processes
ProcessedNow == IF TradeHandled THEN 1 ELSE 0

\* C30 (as stated): with the candle receiver alive, processed = pushed(T) +
\* in-map(T) at every moment; the equation holds initially (0 = 0 + 0), so it
\* holds at every moment exactly when every step adds the same to both sides.
C30_ConservationEveryMoment ==
    [][(Running' /\ sink.alive /\ sink'.alive) =>
        \A i \in 1..Len(cfg.timeframes) :
           LET T == cfg.timeframes[i]
           IN  ProcessedNow = PushedNow(T) + InMap(T)' - InMap(T)
    ]_vars

\* C30 (amended): with the candle receiver alive, at every moment the trades
\* processed equal, for each T, the trades in the candles of period T pushed
\* so far plus the trades in the T-buffers of the map that a flush of T under
\* way has not already pushed (outside a flush of T these are all the
\* T-buffers of the map, and the equation is the stated one). As above, the
\* equation holds initially and every step adds the same to both sides; a step
\* that handles no trade, is no part of a flush and changes neither the map
\* nor the engine adds nothing to either side.
C30_Conservation ==
    [][(/\ Running' /\ sink.alive /\ sink'.alive
        /\ TradeHandled \/ FlushStep \/ buffers' # buffers \/ engine' # engine) =>
        \A i \in 1..Len(cfg.timeframes) :
           LET T == cfg.timeframes[i]
           IN  ProcessedNow = PushedNow(T) + NotEmitted(T)' - NotEmitted(T)
    ]_vars

\* a flush of 1 s waits for room on the candle queue after pushing the candle
\* of BTCUSDT, whose buffer is still in the map beside the buffer of ETHUSDT
\* it has yet to push
C30_Witness ==
    /\ Running /\ sink.alive
    /\ engine.pc = "flush" /\ engine.timeframe = 1
    /\ Len(engine.todo) = 1
    /\ Cardinality(FlushKeys(buffers, 1)) = 2
    /\ InMap(1) > NotEmitted(1)


-----------------------------------------------------------------------------
(* SpecEngine: TradeCandleBuilder::new(trade_rx, candle_tx, timeframes) and *)
(* its start() driven by a caller that holds the trade sender, sends the    *)
(* feed's trades itself and may drop the sender, with a task draining the   *)
(* candle receiver. caller.trade_tx is "held", then "dropped", then         *)
(* "closed" once the engine's recv() has returned None.                     *)

\* the --timeframes lists explored: distinct periods, one period named twice
\* ("1,1s"), and periods outside the sink's twelve ("0,2")
TimeframeLists == {<<1, 5>>, <<1, 1>>, <<0, 2>>}

InitEngine ==
    /\ cfg \in {[Config("bybit", "linear", 2, TRUE) EXCEPT !.timeframes = tfs] :
                  tfs \in TimeframeLists}
    /\ client = [pc |-> "idle", ws_stream |-> FALSE, market_type |-> None,
                 trade_counter |-> 0, pending |-> <<>>, sent |-> <<>>]
    /\ frames = 0
    /\ flagged = {}
    /\ delivered = {}
    /\ trade_queue = <<>>
    /\ trigger_queue = <<>>
    /\ candle_queue = <<>>
    /\ buffers = EmptyBuffers
    /\ engine = [pc |-> "select", timeframe |-> 0, todo |-> <<>>]
    /\ sink = [alive |-> TRUE]
    /\ timers = DOMAIN cfg.timeframes
    /\ caller = [kind |-> "api", op |-> "none", ret |-> "none", tick |-> 0,
                 trade_rx |-> FALSE, trade_tx |-> "held"]
    /\ buf = NewBuffer(0)
    /\ hist = {}
    /\ msg = [exchange |-> "binance", market_type |-> "spot", handled |-> FALSE,
              frame |-> BinaryFrame, out |-> <<>>]

\* the order in which the caller sends the feed's trades: t1, t4, t2, t3 (the
\* two symbols alternate first)
EngineFeedOrder == <<1, 4, 2, 3>>

\* the caller sends the next trade of the feed: trade_tx.send(trade).await
EngineFeed ==
    /\ caller.trade_tx = "held"
    /\ Len(trade_queue) < TradeCapacity
    /\ frames < MaxFrames
    /\ \E e \in {EngineFeedOrder[i] : i \in {frames + 1} \cap DOMAIN EngineFeedOrder} :
         /\ trade_queue' = Append(trade_queue,
                                  MakeTrade(cfg.exchange, cfg.market_type,
                                            FeedEvents(cfg.exchange)[e]))
         /\ delivered' = delivered \cup {e}
    /\ frames' = frames + 1
    /\ UNCHANGED <<cfg, client, flagged, trigger_queue, candle_queue, buffers, engine,
                   sink, buf, hist, msg, caller, timers>>

\* the caller drops the last trade sender; what the queue holds stays
DropTradeSender ==
    /\ caller.trade_tx = "held"
    /\ caller' = [caller EXCEPT !.trade_tx = "dropped"]
    /\ UNCHANGED <<cfg, client, frames, flagged, delivered, trade_queue, trigger_queue,
                   candle_queue, buffers, engine, sink, buf, hist, msg, timers>>

\* a faulty loop that ends when the trade channel is closed, as
\* "while let Some(trade) = recv().await" would (C36 rejects it)
AfterTradeClosedEnds(e) == [pc |-> "ended", timeframe |-> 0, todo |-> <<>>]

\* the engine after recv() returned None: the pattern "Some(trade)" fails,
\* select! disables that branch for this call and waits on the trigger branch
AfterTradeClosed(e) == e

\* select!: trade_receiver.recv() returns None, the queue being empty and
\* every sender gone
EngineTradeClosed ==
    /\ engine.pc = "select"
    /\ trade_queue = <<>>
    /\ caller.trade_tx = "dropped"
    /\ caller' = [caller EXCEPT !.trade_tx = "closed"]
    /\ engine' = AfterTradeClosed(engine)
    /\ UNCHANGED <<cfg, client, frames, flagged, delivered, trade_queue, trigger_queue,
                   candle_queue, buffers, sink, buf, hist, msg, timers>>

\* a timer task whose period is zero: tokio's interval(Duration::from_secs(0))
\* panics ("`period` must be non-zero"), which ends that task alone
TimerPanics(i) ==
    /\ Running
    /\ i \in timers
    /\ cfg.timeframes[i] = 0
    /\ timers' = timers \ {i}
    /\ UNCHANGED <<cfg, client, frames, flagged, delivered, trade_queue, trigger_queue,
                   candle_queue, buffers, engine, sink, buf, hist, msg, caller>>

\* the caller's draining task takes a candle from the candle receiver and keeps
\* it: hist is the set of the candles received so far
CandleRecv ==
    /\ sink.alive
    /\ candle_queue # <<>>
    /\ candle_queue' = Tail(candle_queue)
    /\ hist' = hist \cup {Head(candle_queue)}
    /\ UNCHANGED <<cfg, client, frames, flagged, delivered, trade_queue, trigger_queue,
                   buffers, engine, sink, buf, msg, caller, timers>>

NextEngine ==
    \/ EngineFeed
    \/ DropTradeSender
    \/ EngineTradeClosed
    \/ \E i \in 1..Len(cfg.timeframes) : TimerPanics(i)
    \/ \E i \in 1..Len(cfg.timeframes) : TimerTick(i)
    \/ EngineTrade
    \/ EngineTrigger
    \/ FlushResume
    \/ CandleRecv

SpecEngine == InitEngine /\ [][NextEngine]_vars


\* C31: the step that handles one trade raises, for each configured
\* timeframe, the total count (ask_count + bid_count) of the buffer of the
\* trade's key by exactly 1, whatever the timeframe list, one that names a
\* timeframe twice included.
C31_CountRisesByOne ==
    [][TradeHandled =>
        LET trade == Head(trade_queue)
        IN  \A i \in 1..Len(cfg.timeframes) :
              LET k == KeyOf(trade, cfg.timeframes[i])
              IN  /\ k \in DOMAIN buffers'
                  /\ TotalCount(buffers'[k]) = TotalCount(BufferBefore(k, trade)) + 1
    ]_vars


\* a step in which the caller receives the candle at the head of the queue
CandleReceived == candle_queue # <<>> /\ hist' = hist \cup {Head(candle_queue)}

\* the candles a and b are of the same (exchange, market type, symbol, period)
SameSeries(a, b) ==
    /\ a.exchange = b.exchange /\ a.market_type = b.market_type
    /\ a.symbol = b.symbol /\ a.period_seconds = b.period_seconds

\* the configured timeframes are pairwise distinct
DistinctTimeframes ==
    \A i, j \in DOMAIN cfg.timeframes : i # j => cfg.timeframes[i] # cfg.timeframes[j]

\* C32: for a fixed (exchange, market type, symbol, timeframe) no two candles
\* of different flushes carry the same bucket timestamp: a candle that reaches
\* the caller has a bucket timestamp that no candle of its series received
\* before has (one flush emits one candle per series; the timeframe list
\* names no timeframe twice).
C32_BucketEmittedOnce ==
    [][(CandleReceived /\ DistinctTimeframes) =>
        \A c \in hist :
            SameSeries(c, Head(candle_queue)) => c.timestamp # Head(candle_queue).timestamp
    ]_vars


\* C33: every trade aggregated into a candle of period T has its execution
\* timestamp inside the candle's bucket [timestamp, timestamp + T): the step
\* that handles a trade puts it, for each timeframe T > 0, into a buffer whose
\* candle (as a flush emits it) has a bucket that holds the trade's timestamp.
C33_TradeInsideBucket ==
    [][(TradeHandled /\ DistinctTimeframes) =>
        LET trade == Head(trade_queue)
        IN  \A i \in 1..Len(cfg.timeframes) :
              LET T == cfg.timeframes[i]
                  k == KeyOf(trade, T)
                  candle == ToTradeCandle(buffers'[k], k[1], k[2], k[3], AsI32(T))
              IN  T > 0 =>
                    /\ candle.timestamp <= trade.timestamp
                    /\ trade.timestamp < candle.timestamp + T * 1000
    ]_vars


\* C34: every buffer in the map has ask_count + bid_count >= 1 in every
\* reachable state; so a flush step with the candle receiver alive skips no
\* buffer it visits and emits exactly one candle, that buffer's, for each.
C34_BuffersNeverEmpty ==
    /\ [](\A k \in DOMAIN buffers : TotalCount(buffers[k]) >= 1)
    /\ [][(FlushStep /\ sink.alive) =>
            /\ \A k \in Visited : HasData(buffers[k])
            /\ Len(Emitted) = Cardinality(Visited)
            /\ \A k \in Visited : \E i \in DOMAIN Emitted :
                 Emitted[i] = ToTradeCandle(buffers[k], k[1], k[2], k[3], AsI32(k[4]))
       ]_vars

\* two candles have reached the caller, a third is on the queue and a buffer
\* is in the map
C34_Witness ==
    /\ Cardinality(hist) >= 2
    /\ candle_queue # <<>>
    /\ DOMAIN buffers # {}


\* C35: while a flush waits for room on the full candle queue the engine
\* takes no trade and no other trigger: both queues only grow, the buffers
\* stay as they were when the flush began until its last candle is pushed,
\* every candle it pushes is the snapshot of one of those buffers, and its
\* last step removes exactly the buffers of its timeframe; the trades that
\* arrived meanwhile are still on the trade queue then, and a trade is only
\* handled between flushes.
C35_SuspendedFlushExcludesTrades ==
    [][ /\ engine.pc = "flush" =>
              /\ IsPrefix(trade_queue, trade_queue')
              /\ IsPrefix(trigger_queue, trigger_queue')
              /\ engine'.pc = "flush" =>
                    /\ buffers' = buffers
                    /\ engine'.timeframe = engine.timeframe
                    /\ IsPrefix(engine'.todo,
                                SubSeq(engine.todo, Len(engine.todo) - Len(engine'.todo) + 1,
                                       Len(engine.todo)))
              /\ \A i \in DOMAIN Emitted : \E k \in Range(engine.todo) :
                    /\ k[4] = engine.timeframe
                    /\ Emitted[i].symbol = k[3]
                    /\ Emitted[i].ask_count = buffers[k].ask_count
                    /\ Emitted[i].bid_count = buffers[k].bid_count
                    /\ Emitted[i].ask_volume = buffers[k].ask_volume
                    /\ Emitted[i].bid_volume = buffers[k].bid_volume
              /\ engine'.pc = "select" =>
                    /\ \A k \in DOMAIN buffers' : k[4] # engine.timeframe
                    /\ \A k \in DOMAIN buffers : k[4] # engine.timeframe =>
                          k \in DOMAIN buffers' /\ buffers'[k] = buffers[k]
        /\ (trade_queue # <<>> /\ trade_queue' = Tail(trade_queue)) =>
              engine.pc = "select" /\ engine'.pc = "select"
    ]_vars

\* a flush of T waits with a candle still to push while a candle of period T
\* fills the queue and a trade of that candle's symbol sits on the trade queue
C35_Witness ==
    /\ engine.pc = "flush"
    /\ trade_queue # <<>>
    /\ candle_queue # <<>>
    /\ Head(trade_queue).symbol = candle_queue[1].symbol
    /\ candle_queue[1].period_seconds = engine.timeframe


\* SpecEngine under the runtime's scheduling: the engine task runs once the
\* trigger branch of its select! is ready or its waiting send has room (tokio
\* polls every woken task, and select! picks among ready branches at random),
\* and the draining task takes what the candle queue holds. Nothing is
\* assumed of the caller or of the timers' ticks.
SpecEngineFair ==
    /\ SpecEngine
    /\ WF_vars(EngineTrigger)
    /\ WF_vars(FlushResume)
    /\ WF_vars(CandleRecv)

\* the keys a buffer of SpecEngine may have
EngineKeys ==
    {<<"bybit", "linear", s, T>> : s \in Symbols, T \in {0, 1, 2, 5}}

\* the caller holds a candle of key k, or the candle queue does
CandleOut(k) ==
    \E c \in hist \cup Range(candle_queue) :
        /\ c.exchange = k[1] /\ c.market_type = k[2]
        /\ c.symbol = k[3] /\ c.period_seconds = k[4]

\* C36: once every trade sender is gone the engine's loop neither ends nor
\* fails, and it goes on handling flush triggers: each buffer in the map
\* whose timeframe's tick is on the trigger queue is flushed (it leaves the
\* map) and emitted (its candle is on the candle queue or with the caller).
C36_EngineOutlivesSenders ==
    /\ [](caller.trade_tx # "held" => engine.pc # "ended")
    /\ \A k \in EngineKeys :
         (/\ caller.trade_tx = "closed"
          /\ k \in DOMAIN buffers
          /\ k[4] \in Range(trigger_queue))
            ~> (k \notin DOMAIN buffers /\ CandleOut(k))

\* with the trade channel closed the engine is inside a flush that waits for
\* room on the candle queue
C36_Witness ==
    /\ caller.trade_tx = "closed"
    /\ engine.pc = "flush"
    /\ candle_queue # <<>>


-----------------------------------------------------------------------------
(* SpecLive: the Binance binary's pipeline with the symbol table in place   *)
(* (the writer task drains the candle queue), under the runtime's           *)
(* scheduling. Nothing is assumed of the exchange: frames may stop coming   *)
(* and the connection may fail.                                             *)

InitLive == Init /\ cfg = Config("binance", "spot", 2, TRUE)

\* weak fairness of the trade arm of select!, WF_vars(EngineTrade), written
\* out: the arm is not ready infinitely often, or a trade is taken infinitely
\* often (tokio's select! picks among the ready arms at random)
TradeArmFair ==
    \/ []<>(~(Running /\ engine.pc = "select" /\ trade_queue # <<>>))
    \/ []<><<TradeHandled>>_vars

\* every spawned task runs when it can: the engine's two arms and its waiting
\* send, the writer task, the adapter's waiting send; a timer's send, which
\* waits in the channel's queue of senders, gets room when room keeps coming
SpecLive ==
    /\ InitLive /\ [][Next]_vars
    /\ TradeArmFair
    /\ WF_vars(EngineTrigger)
    /\ WF_vars(FlushResume)
    /\ WF_vars(SinkRecv)
    /\ WF_vars(SendTrade)
    /\ \A i \in {1, 2} : SF_vars(TimerTick(i))

\* nothing is left to do: no trade waits in the adapter or on the trade queue,
\* no buffer holds trades, no candle waits, the engine is back in its select!
Quiescent ==
    /\ trade_queue = <<>> /\ client.pending = <<>>
    /\ DOMAIN buffers = {}
    /\ candle_queue = <<>>
    /\ engine.pc = "select"

\* C37: while the connection stays open (main has not returned) every trade
\* the adapter pushes is handled and, for each timeframe, flushed into a
\* candle that reaches the candle queue and the writer: a flush step puts a
\* candle on the queue for every buffer it visits, and the pipeline always
\* comes to rest with nothing pending, so the adapter, the engine and the
\* timers never wait on each other forever (the feed is finite).
C37_PipelineProgress ==
    /\ [][(FlushStep /\ sink.alive) =>
            /\ Len(Emitted) = Cardinality(Visited)
            /\ \A i \in DOMAIN Emitted : \E k \in Visited :
                 Emitted[i].symbol = k[3] /\ Emitted[i].period_seconds = k[4]
                 /\ TotalCount(buffers[k]) = Emitted[i].ask_count + Emitted[i].bid_count
       ]_vars
    /\ <>[](~Running \/ Quiescent)

\* the adapter waits for room on the trade queue, the engine waits inside a
\* flush for room on the candle queue, and the timers wait for room on the
\* trigger queue: all three wait, and only the writer can move
C37_Witness ==
    /\ Running
    /\ client.pending # <<>>
    /\ engine.pc = "flush"
    /\ Len(trigger_queue) = TriggerCapacity
    /\ Len(candle_queue) = CandleCapacity


\* C38: subscribe_trades called on a client that holds no open connection
\* (connect never called, connect failed, or disconnect already called) never
\* returns success.
C38_SubscribeNeedsConnection ==
    [][(/\ client.pc = "idle" /\ ~client.ws_stream
        /\ caller'.tick # caller.tick /\ caller'.op = "subscribe_trades")
          => caller'.ret # "Ok"
    ]_vars


\* C39: for every timeframe the command line accepts the engine runs without
\* failure: no timer task ends (each starts and keeps ticking), and every
\* candle on the candle queue has a period for which the sink has a
\* collection.
C39_EveryTimeframeRuns ==
    /\ [][timers' = timers]_vars
    /\ [](\A i \in DOMAIN candle_queue :
            CollectionName(candle_queue[i].period_seconds) # None)

=============================================================================
